---- MODULE Spec2Model ----
(***************************************************************************)
(* A model of the tally core of atemv3.py (and of find_atem of atem.py):   *)
(* the connection manager, the reader thread, the broadcast loop of        *)
(* __main__, restart_atem_reader, the dashboard handlers and the shutdown  *)
(* sequence; and, at the end, of the single main loop of atem.py.          *)
(*                                                                         *)
(* Time is discrete, one tick per second.  A sleep or a blocking call of d *)
(* seconds keeps its thread waiting for d ticks; a sub-second sleep        *)
(* (0.1 s, 0.25 s, 0.5 s) lasts zero or one tick.  A thread that is        *)
(* runnable takes its step before the clock ticks again.                   *)
(***************************************************************************)
EXTENDS Integers, Sequences, FiniteSets, TLC

(***************************************************************************)
(* Program constants.                                                      *)
(***************************************************************************)
Live == 2
Preview == 1
Clear == 0
TallyLen == 256
ATEM_TIMEOUT == 5
ATEM_RECONNECT_DELAY == 5
ATEM_DATA_STALE_TIMEOUT == 10
max_consecutive_errors == 5
JoinTimeout == 5
HealthCheckInterval == 10
\* None, for the fields that hold a number or None.
None == -1

(***************************************************************************)
(* Bounds of the model.                                                    *)
(***************************************************************************)
\* Reader thread objects that can exist at the same time.
MaxReaders == 2
\* The largest numeric suffix of a source token the device reports in Spec.
MaxInput == 1
\* How far beyond the 256 channels the values of SpecRender go.
MaxOver == 1
\* Scan threads (run_scan) that can exist at the same time.
MaxScans == 1
\* Host addresses of the scanned subnet.
MaxHosts == 1
MaxAuto == 1

(***************************************************************************)
(* Threads.  Readers are 1..MaxReaders.  The other threads ("procs") are   *)
(* the main thread, the scan threads and the web server thread (HTTPServer *)
(* serves one request at a time).                                          *)
(***************************************************************************)
MainId == 0
Scans == 1..MaxScans
WebId == MaxScans + 1
Procs == MainId..WebId
Readers == 1..MaxReaders

\* Addresses: the hosts of the subnet, and the static fallback address.
Hosts == 1..MaxHosts
FallbackIP == 200

VARIABLES
  dict_state,        \* [Live, Preview, Autolive, isActive]
  dataAge,           \* now - atem_status['last_data_time'] (None: never set),
                     \* counted up to ATEM_DATA_STALE_TIMEOUT + 1
  TallyState,        \* the 256 tally bytes, index i for channel i + 1
  sendOK,            \* the last cycle's datagram (bytearray(TallyState)) left
  sinceCheck,        \* now - last_state_check, counted up to
                     \* HealthCheckInterval + 1
  atem_status,       \* [connected, reconnect_in_progress]
  atem_manager,      \* [atem, ip, connected, last_error]: atem is the address
                     \* the device handle was opened to, or None
  ATEM_IP,           \* the known-good address, or None
  config,            \* [atem_ip, last_successful_ip]
  scan_in_progress,
  atem_reader_thread,      \* the reader thread object of the global, or None
  atem_reader_stop_event,  \* the stop event is set
  lock,              \* the shared-state lock is held
  atem_lock,         \* the manager lock is held
  pc,                \* procs: where each is
  timer,             \* procs: ticks left of a sleep, a blocking call or a join
  jtarget,           \* procs: the thread object a join waits for
  flocal,            \* procs: find_atem's [alive_hosts, result, test_manager]
                     \* and known, the saved address handed to the test
                     \* of 457 (test_manager: the manager of the last
                     \* test_atem_connection, as the call left it); result is
                     \* what the call gives its caller: "True", "False",
                     \* "raised" (an exception), or "none" before that
  rpc,               \* readers: where each is
  rtimer,            \* readers: ticks left of a sleep or a blocking call
  consecutive_errors,      \* readers: the local counter
  sinceAttempt,      \* readers: now - last_reconnect_attempt, counted up to
                     \* ATEM_RECONNECT_DELAY
  rlocal,            \* readers: [ok, ip, live, preview], the locals,
                     \* answer: how the device answers the connect call
                     \* in progress, tokens: the two sources that
                     \* read_data parsed into live and preview, and
                     \* failed_run: the invalid reads since the thread's
                     \* last valid read or successful connect, counted up
                     \* to max_consecutive_errors + 1
  snap,              \* the web thread's status snapshot [Live, Preview, step,
                     \* seen]: step counts the fields read, seen (history)
                     \* holds every pair that an update left, or was
                     \* writing, since the first read
  sinceConnect,      \* history: ticks since the last call of
                     \* atem_manager.connect (None: no call yet), counted up
                     \* to ATEM_RECONNECT_DELAY
  lastRead,          \* history, readers: what the device gave the last read
                     \* ("valid", "failed"; "none" once it is used up)
  committed          \* history: <<Live, Preview>> as the last completed
                     \* update left them

mainVars == <<dict_state, dataAge, TallyState, sendOK, sinceCheck>>
mgrVars == <<atem_status, atem_manager, ATEM_IP, config, scan_in_progress,
             atem_reader_thread, atem_reader_stop_event, lock, atem_lock>>
procVars == <<pc, timer, jtarget, flocal>>
readerVars == <<rpc, rtimer, consecutive_errors, sinceAttempt, rlocal>>
histVars == <<snap, sinceConnect, lastRead, committed>>
vars == <<mainVars, mgrVars, procVars, readerVars, histVars>>

Min(a, b) == IF a < b THEN a ELSE b

\* A sleep shorter than a second: zero or one tick.
ShortSleep == {0, 1}

Channels == 0..(TallyLen - 1)

AllClear == [i \in Channels |-> Clear]

\* A staleness gate that forgets that data_age may be None.
FreshUnlessOld(data_age) == data_age <= ATEM_DATA_STALE_TIMEOUT

\* The staleness gate of 1022-1023: the data is there and not too old.
Fresh(data_age) == ~(data_age = None \/ data_age > ATEM_DATA_STALE_TIMEOUT)

\* A render that writes index live_val instead of live_val - 1.
RenderOffByOne(active, data_age, live_val, preview_val, autolive_val) ==
  IF active /\ Fresh(data_age) /\ live_val > 0 /\ live_val < TallyLen
    THEN [AllClear EXCEPT ![live_val] = Live]
    ELSE AllClear

\* A render that writes Live first and Preview after it, and Preview only
\* below the last channel.
RenderPreviewLast(active, data_age, live_val, preview_val, autolive_val) ==
  LET withLive ==
        IF live_val > 0 /\ live_val <= TallyLen
          THEN [AllClear EXCEPT ![live_val - 1] = Live]
          ELSE AllClear
  IN  IF active /\ Fresh(data_age)
        THEN IF autolive_val = 0 /\ preview_val > 0 /\ preview_val < TallyLen
               THEN [withLive EXCEPT ![preview_val - 1] = Preview]
               ELSE withLive
        ELSE AllClear

\* A render that clamps a live value above the last channel onto it.
RenderClampsLive(active, data_age, live_val, preview_val, autolive_val) ==
  LET withPreview ==
        IF autolive_val = 0 /\ preview_val > 0 /\ preview_val <= TallyLen
          THEN [AllClear EXCEPT ![preview_val - 1] = Preview]
          ELSE AllClear
      withLive ==
        IF live_val > 0
          THEN [withPreview EXCEPT ![Min(live_val, TallyLen) - 1] = Live]
          ELSE withPreview
  IN  IF active /\ Fresh(data_age) THEN withLive ELSE AllClear

\* A render that does not look at autolive.
RenderIgnoresAutolive(active, data_age, live_val, preview_val, autolive_val) ==
  LET withPreview ==
        IF preview_val > 0 /\ preview_val <= TallyLen
          THEN [AllClear EXCEPT ![preview_val - 1] = Preview]
          ELSE AllClear
      withLive ==
        IF live_val > 0 /\ live_val <= TallyLen
          THEN [withPreview EXCEPT ![live_val - 1] = Live]
          ELSE withPreview
  IN  IF active /\ Fresh(data_age) THEN withLive ELSE AllClear

\* A render that writes Live only where Preview was not written.
RenderKeepsPreview(active, data_age, live_val, preview_val, autolive_val) ==
  LET withPreview ==
        IF autolive_val = 0 /\ preview_val > 0 /\ preview_val <= TallyLen
          THEN [AllClear EXCEPT ![preview_val - 1] = Preview]
          ELSE AllClear
      withLive ==
        IF live_val > 0 /\ live_val <= TallyLen
             /\ withPreview[live_val - 1] = Clear
          THEN [withPreview EXCEPT ![live_val - 1] = Live]
          ELSE withPreview
  IN  IF active /\ Fresh(data_age) THEN withLive ELSE AllClear

(***************************************************************************)
(* The render of one broadcast cycle (atemv3.py 1016-1039): the array is   *)
(* reset, then, when the system is active and data_age is neither None nor *)
(* above the staleness threshold, Preview is written and after it Live.    *)
(***************************************************************************)
RenderTally(active, data_age, live_val, preview_val, autolive_val) ==
  LET withPreview ==
        IF autolive_val = 0 /\ preview_val > 0 /\ preview_val <= TallyLen
          THEN [AllClear EXCEPT ![preview_val - 1] = Preview]
          ELSE AllClear
      withLive ==
        IF live_val > 0 /\ live_val <= TallyLen
          THEN [withPreview EXCEPT ![live_val - 1] = Live]
          ELSE withPreview
  IN  IF active /\ Fresh(data_age) THEN withLive ELSE AllClear

(***************************************************************************)
(* Source tokens and their parse (atemv3.py 204-217).  A token is what     *)
(* str(videoSource) gives: "input<n>" (kind "input"), a digit string (kind *)
(* "digits"), "input" followed by something int() rejects (kind            *)
(* "badinput", the except branch) or any other name (kind "other").        *)
(***************************************************************************)
Token(kind, n) == [kind |-> kind, n |-> n]

\* A parse that knows only the "input<n>" form.
parse_input_only(value) == IF value.kind = "input" THEN value.n ELSE 0

_parse_input_value(value) ==
  IF value.kind = "input"
    THEN (IF value.n = 0 THEN 0 ELSE value.n)
    ELSE IF value.kind = "digits" THEN value.n
    ELSE 0

\* The tokens the device reports in Spec; NoToken is videoSource = None.
NoToken == Token("none", 0)
Tokens == {Token("input", n) : n \in 0..MaxInput}

(***************************************************************************)
(* ATEMConnectionManager.connect (118-165) holds atem_lock from the        *)
(* teardown of the prior handle to its return.  The device decides the     *)
(* outcome and how long the call blocks: the handshake wait is at most     *)
(* ATEM_TIMEOUT, the stabilization pause half a second more.               *)
(***************************************************************************)
\* The device's answer to one connect call: the handshake completes or not
\* (waitForConnection, or an exception before it), the call blocks for wait
\* ticks, and live and preview are the sources of the validation read.
Answer(handshake, wait, live, preview) ==
  [handshake |-> handshake, wait |-> wait, live |-> live, preview |-> preview]

NoAnswer == Answer(FALSE, 0, NoToken, NoToken)

\* A connect that leaves out the validation read.
connect_ok_unvalidated(a) == a.handshake

\* connect returns True (133-150): the handshake completed and the
\* validation read gave two sources.
connect_ok(a) == a.handshake /\ a.live # NoToken /\ a.preview # NoToken

AnswerOk(wait) ==
  Answer(TRUE, wait, Token("input", MaxInput), Token("input", 0))

\* At once or late with both sources, refused at once (an exception), the
\* handshake timed out, and the handshake done with a source missing.
ConnectOutcomes ==
  {AnswerOk(0), AnswerOk(ATEM_TIMEOUT + 1),
   Answer(FALSE, 0, NoToken, NoToken),
   Answer(FALSE, ATEM_TIMEOUT, NoToken, NoToken),
   Answer(TRUE, 0, Token("input", MaxInput), NoToken)}

\* The manager when connect(ip) returns, ok or not (146-165).
ConnectResult(mgr, ip, ok) ==
  IF ok
    THEN [atem |-> ip, ip |-> ip, connected |-> TRUE, last_error |-> FALSE]
    ELSE [mgr EXCEPT !.atem = None, !.connected = FALSE, !.last_error = TRUE]

\* A disconnect that flips the flag instead of clearing it.
DisconnectedToggles(mgr) ==
  [mgr EXCEPT !.atem = None, !.connected = ~mgr.connected]

\* A disconnect that keeps the handle.
DisconnectedKeepsHandle(mgr) == [mgr EXCEPT !.connected = FALSE]

\* ATEMConnectionManager.disconnect (167-177).
Disconnected(mgr) == [mgr EXCEPT !.atem = None, !.connected = FALSE]

\* The process runs until the main thread has left its shutdown sequence
\* (the other threads are daemon threads) or has died at startup.
Running == pc[MainId] \notin {"done", "crashed"}

IsAlive(r) == rpc[r] \notin {"idle", "dead"}

(***************************************************************************)
(* The state after the module's top-level code (75-103, 233) has run with  *)
(* a saved address in the configuration: __main__ is about to start.       *)
(***************************************************************************)
\* The reader's locals outside the calls that use them.
NoLocals == [ok |-> FALSE, ip |-> None, live |-> 0, preview |-> 0,
             answer |-> NoAnswer, tokens |-> <<NoToken, NoToken>>,
             failed_run |-> 0]

\* find_atem's locals outside a call.
\* ATEMConnectionManager() (111-116).
NewManager == [atem |-> None, ip |-> None, connected |-> FALSE,
               last_error |-> FALSE]

NoFind == [alive_hosts |-> <<>>, result |-> "none", test_manager |-> NewManager,
           known |-> None, new_ip |-> None]

InitCommon ==
  /\ dict_state = [Live |-> 0, Preview |-> 0, Autolive |-> 0, isActive |-> TRUE]
  /\ dataAge = None
  /\ TallyState = AllClear
  /\ sendOK = FALSE
  /\ sinceCheck = 0
  /\ atem_status = [connected |-> FALSE, reconnect_in_progress |-> FALSE]
  /\ atem_manager = NewManager
  /\ scan_in_progress = FALSE
  /\ atem_reader_thread = None
  /\ atem_reader_stop_event = FALSE
  /\ lock = FALSE
  /\ atem_lock = FALSE
  /\ pc = [p \in Procs |-> IF p = MainId THEN "startup" ELSE "idle"]
  /\ timer = [p \in Procs |-> 0]
  /\ jtarget = [p \in Procs |-> None]
  /\ flocal = [p \in Procs |-> NoFind]
  /\ rpc = [r \in Readers |-> "idle"]
  /\ rtimer = [r \in Readers |-> 0]
  /\ consecutive_errors = [r \in Readers |-> 0]
  /\ sinceAttempt = [r \in Readers |-> 0]
  /\ rlocal = [r \in Readers |-> NoLocals]
  /\ snap = [Live |-> 0, Preview |-> 0, step |-> 0, seen |-> {}]
  /\ sinceConnect = None
  /\ lastRead = [r \in Readers |-> "none"]
  /\ committed = <<dict_state.Live, dict_state.Preview>>

Init ==
  /\ InitCommon
  /\ ATEM_IP = CHOOSE ip \in Hosts : \A h \in Hosts : ip <= h
  /\ config = [atem_ip |-> ATEM_IP, last_successful_ip |-> None]

(***************************************************************************)
(* The reader thread, atem_reader_thread_func (238-319).                   *)
(***************************************************************************)
\* The head of the loop (247-276): the stop check, then the decision to
\* call atem_manager.connect(ATEM_IP), to sleep a second, to go on to the
\* read, or (no address) to pause.  current_time is read here, before
\* connect waits for atem_lock.
ReaderLoop(r) ==
  /\ Running
  /\ rpc[r] = "loop" /\ rtimer[r] = 0
  /\ IF atem_reader_stop_event
       THEN /\ rpc' = [rpc EXCEPT ![r] = "dead"]
            /\ sinceAttempt' = [sinceAttempt EXCEPT ![r] = 0]
            /\ consecutive_errors' = [consecutive_errors EXCEPT ![r] = 0]
            /\ lastRead' = [lastRead EXCEPT ![r] = "none"]
            /\ UNCHANGED <<rtimer, rlocal, atem_status, sinceConnect>>
       ELSE IF ~atem_manager.connected /\ ATEM_IP # None
         THEN IF sinceAttempt[r] >= ATEM_RECONNECT_DELAY
                THEN /\ rpc' = [rpc EXCEPT ![r] = "connect"]
                     /\ rlocal' = [rlocal EXCEPT ![r].ip = ATEM_IP]
                     /\ atem_status' = [atem_status EXCEPT !.reconnect_in_progress = TRUE]
                     /\ sinceAttempt' = [sinceAttempt EXCEPT ![r] = 0]
                     /\ sinceConnect' = 0
                     /\ UNCHANGED <<rtimer, consecutive_errors, lastRead>>
                ELSE /\ rtimer' = [rtimer EXCEPT ![r] = 1]
                     /\ UNCHANGED <<rpc, rlocal, atem_status, sinceAttempt,
                                    sinceConnect, consecutive_errors, lastRead>>
         ELSE /\ IF atem_manager.connected
                   THEN /\ rpc' = [rpc EXCEPT ![r] = "read"]
                        /\ UNCHANGED rtimer
                   ELSE /\ \E d \in ShortSleep : rtimer' = [rtimer EXCEPT ![r] = d]
                        /\ UNCHANGED rpc
              /\ UNCHANGED <<rlocal, atem_status, sinceAttempt,
                             sinceConnect, consecutive_errors, lastRead>>
  /\ UNCHANGED <<mainVars, atem_manager, ATEM_IP, config, scan_in_progress,
                 atem_reader_thread, atem_reader_stop_event, lock, atem_lock,
                 procVars, snap, committed>>

\* connect (118-136): the lock is taken, the prior handle torn down, a new
\* handle opened; the call then blocks in the handshake wait.  outcomes:
\* how the device may answer.
ReaderConnectBegin(r, outcomes) ==
  /\ Running
  /\ rpc[r] = "connect" /\ ~atem_lock
  /\ \E a \in outcomes :
       /\ rlocal' = [rlocal EXCEPT ![r].answer = a]
       /\ rtimer' = [rtimer EXCEPT ![r] = a.wait]
  /\ atem_lock' = TRUE
  /\ atem_manager' = [atem_manager EXCEPT !.atem = rlocal[r].ip]
  /\ rpc' = [rpc EXCEPT ![r] = "connecting"]
  /\ UNCHANGED <<mainVars, atem_status, ATEM_IP, config, scan_in_progress,
                 atem_reader_thread, atem_reader_stop_event, lock, procVars,
                 consecutive_errors, sinceAttempt, histVars>>

\* connect (138-165): the validation read, the result, the lock released.
ReaderConnectEnd(r) ==
  /\ Running
  /\ rpc[r] = "connecting" /\ rtimer[r] = 0
  /\ rlocal' = [rlocal EXCEPT ![r].ok = connect_ok(rlocal[r].answer)]
  /\ atem_manager' = ConnectResult(atem_manager, rlocal[r].ip, rlocal'[r].ok)
  /\ atem_lock' = FALSE
  /\ rpc' = [rpc EXCEPT ![r] = "connected_ret"]
  /\ UNCHANGED <<mainVars, atem_status, ATEM_IP, config, scan_in_progress,
                 atem_reader_thread, atem_reader_stop_event, lock, procVars,
                 rtimer, consecutive_errors, sinceAttempt, histVars>>

\* After connect returned (257-276); the result of the call is not read
\* again: it is reset.
ReaderAfterConnect(r) ==
  /\ Running
  /\ rpc[r] = "connected_ret"
  /\ atem_status' = [connected |-> rlocal[r].ok, reconnect_in_progress |-> FALSE]
  /\ consecutive_errors' =
       [consecutive_errors EXCEPT ![r] = IF rlocal[r].ok THEN 0 ELSE @]
  /\ IF ~atem_manager.connected
       THEN /\ rpc' = [rpc EXCEPT ![r] = "loop"]
            /\ rtimer' = [rtimer EXCEPT ![r] = 1]
       ELSE /\ rpc' = [rpc EXCEPT ![r] = "read"]
            /\ UNCHANGED rtimer
  /\ rlocal' = [rlocal EXCEPT ![r].ok = FALSE, ![r].ip = None,
                               ![r].answer = NoAnswer,
                               ![r].failed_run = IF rlocal[r].ok THEN 0 ELSE @]
  /\ UNCHANGED <<mainVars, atem_manager, ATEM_IP, config, scan_in_progress,
                 atem_reader_thread, atem_reader_stop_event, lock, atem_lock,
                 procVars, sinceAttempt, histVars>>

\* A read_data that answers a missing source with channel 0.
read_data_zero(mgr, live, preview) ==
  IF mgr.atem = None \/ ~mgr.connected THEN <<FALSE, 0, 0>>
  ELSE IF live = NoToken \/ preview = NoToken THEN <<TRUE, 0, 0>>
  ELSE <<TRUE, _parse_input_value(live), _parse_input_value(preview)>>

\* What read_data (179-202) returns for the tokens the device reports:
\* <<valid, live_num, preview_num>>.
read_data(mgr, live, preview) ==
  IF mgr.atem = None \/ ~mgr.connected THEN <<FALSE, 0, 0>>
  ELSE IF live = NoToken \/ preview = NoToken THEN <<FALSE, 0, 0>>
  ELSE <<TRUE, _parse_input_value(live), _parse_input_value(preview)>>

\* The manager after read_data (198-202): a read that raised records the
\* error; the early return of 182-183 records nothing.
AfterRead(mgr, valid) ==
  IF ~valid /\ mgr.atem # None /\ mgr.connected
    THEN [mgr EXCEPT !.last_error = TRUE]
    ELSE mgr

\* What the device gave the read: "valid" when the manager holds a
\* connected handle and both sources are there, "failed" otherwise.
Reported(mgr, live, preview) ==
  IF mgr.atem # None /\ mgr.connected /\ live # NoToken /\ preview # NoToken
    THEN "valid"
    ELSE "failed"

\* A counter that does not count.
CountErrorStuck(n) == n

\* A counter that counts an invalid read twice.
CountErrorTwice(n) == n + 2

\* The counter after an invalid read (301).
CountError(n) == n + 1

\* The read (277-279, 300-304, 313): read_data under atem_lock; a valid
\* read goes on to the update, an invalid one counts, and at
\* max_consecutive_errors goes on to the disconnect.  reports: what the
\* device may report as a source.
ReaderRead(r, reports) ==
  /\ Running
  /\ rpc[r] = "read" /\ ~atem_lock
  /\ \E live \in reports, preview \in reports :
       LET res == read_data(atem_manager, live, preview)
           errs == CountError(consecutive_errors[r])
       IN  /\ atem_manager' = AfterRead(atem_manager, res[1])
           /\ lastRead' = [lastRead EXCEPT ![r] = Reported(atem_manager, live, preview)]
           /\ IF res[1]
                THEN /\ rlocal' = [rlocal EXCEPT ![r].live = res[2],
                                                 ![r].preview = res[3],
                                                 ![r].tokens = <<live, preview>>,
                                                 ![r].failed_run = 0]
                     /\ rpc' = [rpc EXCEPT ![r] = "update"]
                     /\ UNCHANGED <<rtimer, consecutive_errors>>
                ELSE /\ consecutive_errors' = [consecutive_errors EXCEPT ![r] = errs]
                     /\ IF errs >= max_consecutive_errors
                          THEN /\ rpc' = [rpc EXCEPT ![r] = "disconnect"]
                               /\ UNCHANGED rtimer
                          ELSE /\ rpc' = [rpc EXCEPT ![r] = "loop"]
                               /\ \E d \in ShortSleep :
                                    rtimer' = [rtimer EXCEPT ![r] = d]
                     /\ rlocal' = [rlocal EXCEPT ![r].failed_run =
                                     Min(@ + 1, max_consecutive_errors + 1)]
  /\ UNCHANGED <<mainVars, atem_status, ATEM_IP, config, scan_in_progress,
                 atem_reader_thread, atem_reader_stop_event, lock, atem_lock,
                 procVars, sinceAttempt, snap, sinceConnect, committed>>

\* The update of the shared state under the lock (281-285).  The sources
\* behind the two values are not needed after this point.
ReaderUpdateBegin(r) ==
  /\ Running
  /\ rpc[r] = "update" /\ ~lock
  /\ lock' = TRUE
  /\ dict_state' = [dict_state EXCEPT !.Live = rlocal[r].live]
  /\ rpc' = [rpc EXCEPT ![r] = "updating"]
  /\ rlocal' = [rlocal EXCEPT ![r].tokens = <<NoToken, NoToken>>]
  /\ UNCHANGED <<dataAge, TallyState, sendOK, sinceCheck, atem_status,
                 atem_manager, ATEM_IP, config, scan_in_progress,
                 atem_reader_thread, atem_reader_stop_event, atem_lock,
                 procVars, rtimer, consecutive_errors, sinceAttempt,
                 histVars>>

\* The fields an update writes after Live (286-291).
UpdateRest(ds, preview) == [ds EXCEPT !.Preview = preview, !.Autolive = 0]

\* A refresh of the data time that needs the values to have changed.
RefreshedOnChange(data_age, changed) == IF changed THEN 0 ELSE data_age

\* 292: last_data_time = time.time(), whether or not the values changed
\* (the test of 283 guards only the log line).
RefreshedAge(data_age, changed) == 0

\* The rest of the update (286-294, 313), and the lock released.  The
\* locals live_value and preview_value are not read again: they are reset.
ReaderUpdateEnd(r) ==
  /\ Running
  /\ rpc[r] = "updating"
  /\ dict_state' = UpdateRest(dict_state, rlocal[r].preview)
  /\ dataAge' = RefreshedAge(dataAge,
                             committed # <<dict_state.Live, rlocal[r].preview>>)
  /\ lock' = FALSE
  /\ consecutive_errors' = [consecutive_errors EXCEPT ![r] = 0]
  /\ rpc' = [rpc EXCEPT ![r] = "loop"]
  /\ rlocal' = [rlocal EXCEPT ![r].live = 0, ![r].preview = 0]
  /\ \E d \in ShortSleep : rtimer' = [rtimer EXCEPT ![r] = d]
  /\ committed' = <<dict_state.Live, rlocal[r].preview>>
  /\ snap' = [snap EXCEPT !.seen = IF snap.step = 1 THEN @ \cup {committed'} ELSE @]
  /\ lastRead' = [lastRead EXCEPT ![r] = "none"]
  /\ UNCHANGED <<TallyState, sendOK, sinceCheck, atem_status, atem_manager,
                 ATEM_IP, config, scan_in_progress, atem_reader_thread,
                 atem_reader_stop_event, atem_lock, procVars, sinceAttempt,
                 sinceConnect>>

\* The forced disconnect at the threshold and the pause after it (304-313).
ReaderDisconnect(r) ==
  /\ Running
  /\ rpc[r] = "disconnect" /\ ~atem_lock
  /\ atem_manager' = Disconnected(atem_manager)
  /\ atem_status' = [atem_status EXCEPT !.connected = FALSE]
  /\ consecutive_errors' = [consecutive_errors EXCEPT ![r] = 0]
  /\ rpc' = [rpc EXCEPT ![r] = "loop"]
  /\ \E d \in ShortSleep : rtimer' = [rtimer EXCEPT ![r] = ATEM_RECONNECT_DELAY + d]
  /\ UNCHANGED <<mainVars, ATEM_IP, config, scan_in_progress,
                 atem_reader_thread, atem_reader_stop_event, lock, atem_lock,
                 procVars, sinceAttempt, rlocal, histVars>>

\* The reader with a device that may answer in every way.
ReaderStep ==
  \E r \in Readers :
    \/ ReaderLoop(r)
    \/ ReaderConnectBegin(r, ConnectOutcomes)
    \/ ReaderConnectEnd(r)
    \/ ReaderAfterConnect(r)
    \/ ReaderRead(r, Tokens \cup {NoToken})
    \/ ReaderUpdateBegin(r)
    \/ ReaderUpdateEnd(r)
    \/ ReaderDisconnect(r)

(***************************************************************************)
(* restart_atem_reader (928-949), run by the main thread (health check),   *)
(* by the web thread or by a scan thread.                                  *)
(***************************************************************************)
\* A reader slot for a new thread object: one whose thread never ran or has
\* ended, and that no join still refers to.
FreeSlots ==
  {r \in Readers : ~IsAlive(r) /\ \A p \in Procs : jtarget[p] # r}

\* Where restart_atem_reader returns to.
AfterRestart(p) == IF p = MainId THEN "cycle" ELSE "idle"

\* 933-936: the stop event is set and the join begins, if the thread of the
\* global is alive.
RestartBegin(p) ==
  /\ Running
  /\ pc[p] = "restart"
  /\ IF atem_reader_thread # None /\ IsAlive(atem_reader_thread)
       THEN /\ atem_reader_stop_event' = TRUE
            /\ jtarget' = [jtarget EXCEPT ![p] = atem_reader_thread]
            /\ timer' = [timer EXCEPT ![p] = JoinTimeout]
            /\ pc' = [pc EXCEPT ![p] = "restart_join"]
       ELSE /\ pc' = [pc EXCEPT ![p] = "restart_disc"]
            /\ UNCHANGED <<atem_reader_stop_event, jtarget, timer>>
  /\ UNCHANGED <<mainVars, atem_status, atem_manager, ATEM_IP, config,
                 scan_in_progress, atem_reader_thread, lock, atem_lock,
                 flocal, readerVars, histVars>>

\* join(timeout=5) returns: the thread has ended, or the timeout is over.
JoinReturns(p) == ~IsAlive(jtarget[p]) \/ timer[p] = 0

RestartJoin(p) ==
  /\ Running
  /\ pc[p] = "restart_join" /\ JoinReturns(p)
  /\ pc' = [pc EXCEPT ![p] = "restart_disc"]
  /\ timer' = [timer EXCEPT ![p] = 0]
  /\ jtarget' = [jtarget EXCEPT ![p] = None]
  /\ UNCHANGED <<mainVars, mgrVars, flocal, readerVars, histVars>>

\* 939: atem_manager.disconnect().
RestartDisconnect(p) ==
  /\ Running
  /\ pc[p] = "restart_disc" /\ ~atem_lock
  /\ atem_manager' = Disconnected(atem_manager)
  /\ pc' = [pc EXCEPT ![p] = "restart_start"]
  /\ UNCHANGED <<mainVars, atem_status, ATEM_IP, config, scan_in_progress,
                 atem_reader_thread, atem_reader_stop_event, lock, atem_lock,
                 timer, jtarget, flocal, readerVars, histVars>>

\* A reader thread as it starts (242-245).
StartReader(r) ==
  /\ rpc' = [rpc EXCEPT ![r] = "loop"]
  /\ rtimer' = [rtimer EXCEPT ![r] = 0]
  /\ consecutive_errors' = [consecutive_errors EXCEPT ![r] = 0]
  /\ sinceAttempt' = [sinceAttempt EXCEPT ![r] = 0]
  /\ rlocal' = [rlocal EXCEPT ![r] = NoLocals]
  /\ atem_reader_thread' = r

\* 942-948: the stop event is cleared and a new thread started.
RestartStart(p) ==
  /\ Running
  /\ pc[p] = "restart_start"
  /\ FreeSlots # {}
  /\ atem_reader_stop_event' = FALSE
  /\ StartReader(CHOOSE r \in FreeSlots : \A q \in FreeSlots : r <= q)
  /\ pc' = [pc EXCEPT ![p] = AfterRestart(p)]
  /\ IF p = MainId
       THEN \E d \in ShortSleep : timer' = [timer EXCEPT ![p] = d]
       ELSE UNCHANGED timer
  /\ UNCHANGED <<mainVars, atem_status, atem_manager, ATEM_IP, config,
                 scan_in_progress, lock, atem_lock, jtarget, flocal, histVars>>

(***************************************************************************)
(* find_atem (444-513), run by the main thread at startup when no address  *)
(* is saved, and by the run_scan thread of every scan request.             *)
(***************************************************************************)
\* The lists of distinct hosts that answer the ping sweep, in the order the
\* pings complete.
HostLists ==
  {<<>>} \cup {<<h>> : h \in Hosts}
         \cup {<<hg[1], hg[2]>> : hg \in {x \in Hosts \X Hosts : x[1] # x[2]}}

\* A find_atem that no caller forces.
force_scan_never(p) == FALSE

\* run_scan calls find_atem(network, force_scan=True), __main__ calls
\* find_atem(network).
force_scan(p) == p # MainId

\* Where find_atem returns to.
AfterFind(p) == IF p = MainId THEN "find_ret" ELSE "scan_ret"

\* How the device at ip answers the probe when the mixers are at the
\* addresses of m.
ProbeAnswer(ip, m) == IF ip \in m THEN AnswerOk(0) ELSE NoAnswer

\* A probe that leaves its manager as connect left it.
test_without_disconnect(ip_str, a) ==
  [result |-> connect_ok(a),
   test_manager |-> ConnectResult(NewManager, ip_str, connect_ok(a))]

\* test_atem_connection (431-442): connect on a manager of its own, and
\* disconnect when connect returned True.
test_atem_connection(ip_str, a) ==
  LET test_manager == ConnectResult(NewManager, ip_str, connect_ok(a))
      result == connect_ok(a)
  IN  [result |-> result,
       test_manager |-> IF result THEN Disconnected(test_manager)
                        ELSE test_manager]

\* The sets of addresses that may be the ones answering the mixer probe
\* (test_atem_connection, 431-442) when nothing is known of the network.
AnyMixers == SUBSET (Hosts \cup {FallbackIP})

\* 448-457: scan_in_progress is set; with a saved address and a scan that
\* is not forced, the address is handed to test_atem_connection; else the
\* ping sweep begins.
FindBegin(p) ==
  /\ Running
  /\ pc[p] = "find"
  /\ scan_in_progress' = TRUE
  /\ IF ~force_scan(p) /\ ATEM_IP # None
       THEN /\ pc' = [pc EXCEPT ![p] = "find_fast"]
            /\ flocal' = [flocal EXCEPT ![p].known = ATEM_IP]
       ELSE /\ pc' = [pc EXCEPT ![p] = "find_ping"]
            /\ UNCHANGED flocal
  /\ UNCHANGED <<mainVars, atem_status, atem_manager, ATEM_IP, config,
                 atem_reader_thread, atem_reader_stop_event, lock, atem_lock,
                 timer, jtarget, readerVars, histVars>>

\* 457-463: test_atem_connection of the saved address (under atem_lock)
\* returns; True ends the search and stores as last_successful_ip the value
\* the global ATEM_IP has then (460), False goes on to the ping sweep.  mixers: the sets of addresses that may be
\* answering the probe.
FindFast(p, mixers) ==
  /\ Running
  /\ pc[p] = "find_fast" /\ ~atem_lock
  /\ \E m \in mixers :
       LET t == test_atem_connection(flocal[p].known,
                                     ProbeAnswer(flocal[p].known, m))
       IN  IF t.result
             THEN /\ config' = [config EXCEPT !.last_successful_ip = ATEM_IP]
                  /\ flocal' = [flocal EXCEPT
                                  ![p].result = "True",
                                  ![p].test_manager = t.test_manager]
                  /\ pc' = [pc EXCEPT ![p] = "find_finally"]
             ELSE /\ pc' = [pc EXCEPT ![p] = "find_ping"]
                  /\ flocal' = [flocal EXCEPT
                                  ![p].test_manager = t.test_manager]
                  /\ UNCHANGED config
  /\ UNCHANGED <<mainVars, atem_status, atem_manager, ATEM_IP, scan_in_progress,
                 atem_reader_thread, atem_reader_stop_event, lock, atem_lock,
                 timer, jtarget, readerVars, histVars>>

\* 465-490: the ping sweep.  as_completed(..., timeout=10) raises
\* TimeoutError in the for statement when the budget is over before every
\* ping has completed; nothing in find_atem catches it.  Otherwise the hosts
\* that answered are kept, and none of them ends the search with False.
\* budgets: whether the budget may end first; lists: the hosts that may
\* answer.
FindPing(p, budgets, lists) ==
  /\ Running
  /\ pc[p] = "find_ping"
  /\ \E expired \in budgets, alive \in lists :
       IF expired
         THEN /\ flocal' = [flocal EXCEPT ![p].result = "raised"]
              /\ pc' = [pc EXCEPT ![p] = "find_finally"]
         ELSE IF alive = <<>>
           THEN /\ flocal' = [flocal EXCEPT ![p].result = "False"]
                /\ pc' = [pc EXCEPT ![p] = "find_finally"]
           ELSE /\ flocal' = [flocal EXCEPT ![p].alive_hosts = alive]
                /\ pc' = [pc EXCEPT ![p] = "find_probe"]
  /\ UNCHANGED <<mainVars, mgrVars, timer, jtarget, readerVars, histVars>>

\* A sweep that goes on to the next host after a success as well.
RemainingAfterAny(alive_hosts, found) == Tail(alive_hosts)

\* The hosts still to test after one test (498-510): none after a success
\* (return True), the rest of the list after a failure.
RemainingHosts(alive_hosts, found) ==
  IF found THEN <<>> ELSE Tail(alive_hosts)

\* 492-510: the next host that answered is tested; the first that is an
\* ATEM becomes the address and is saved; after the last one the search ends
\* with False.
FindProbe(p, mixers) ==
  /\ Running
  /\ pc[p] = "find_probe" /\ ~atem_lock
  /\ LET ip_str == Head(flocal[p].alive_hosts)
     IN  \E m \in mixers :
           LET t == test_atem_connection(ip_str, ProbeAnswer(ip_str, m))
               rest == RemainingHosts(flocal[p].alive_hosts, t.result)
           IN
           /\ ATEM_IP' = IF t.result THEN ip_str ELSE ATEM_IP
           /\ flocal' = [flocal EXCEPT
                           ![p].alive_hosts = rest,
                           ![p].result = IF t.result THEN "True"
                                         ELSE IF rest = <<>> THEN "False"
                                         ELSE "none",
                           ![p].test_manager = t.test_manager]
           /\ pc' = [pc EXCEPT ![p] =
                       IF t.result THEN "find_store"
                       ELSE IF rest = <<>> THEN "find_finally"
                       ELSE "find_probe"]
  /\ UNCHANGED <<mainVars, atem_status, atem_manager, config, scan_in_progress,
                 atem_reader_thread, atem_reader_stop_event, lock, atem_lock,
                 timer, jtarget, readerVars, histVars>>

\* 502-506: the configuration is written and saved, and find_atem returns
\* True.  What is saved is the value the global ATEM_IP has when 502-503
\* run, not the loop variable.
FindStore(p) ==
  /\ Running
  /\ pc[p] = "find_store"
  /\ config' = [atem_ip |-> ATEM_IP, last_successful_ip |-> ATEM_IP]
  /\ pc' = [pc EXCEPT ![p] = "find_finally"]
  /\ UNCHANGED <<mainVars, atem_status, atem_manager, ATEM_IP, scan_in_progress,
                 atem_reader_thread, atem_reader_stop_event, lock, atem_lock,
                 timer, jtarget, flocal, readerVars, histVars>>

\* 512-513: the finally clause, on every way out.  The manager of the last
\* probe is out of reach from here on.
FindFinally(p) ==
  /\ Running
  /\ pc[p] = "find_finally"
  /\ scan_in_progress' = FALSE
  /\ pc' = [pc EXCEPT ![p] = AfterFind(p)]
  /\ flocal' = [flocal EXCEPT ![p].test_manager = NewManager]
  /\ UNCHANGED <<mainVars, atem_status, atem_manager, ATEM_IP, config,
                 atem_reader_thread, atem_reader_stop_event, lock, atem_lock,
                 timer, jtarget, readerVars, histVars>>

\* run_scan after find_atem (881-885): an exception ends the thread; else
\* the reader is restarted if an address is known.
RunScanEnd(p) ==
  /\ Running
  /\ pc[p] = "scan_ret"
  /\ pc' = [pc EXCEPT ![p] =
              IF flocal[p].result # "raised" /\ ATEM_IP # None
                THEN "restart" ELSE "idle"]
  /\ flocal' = [flocal EXCEPT ![p] = NoFind]
  /\ UNCHANGED <<mainVars, mgrVars, timer, jtarget, readerVars, histVars>>

(***************************************************************************)
(* __main__ (954-1082).                                                    *)
(***************************************************************************)
\* 970-977: no address is saved; with a local address the network is
\* searched, without one startup goes on.
MainDiscover ==
  /\ pc[MainId] = "startup" /\ ATEM_IP = None
  /\ \E localIP \in BOOLEAN :
       pc' = [pc EXCEPT ![MainId] = IF localIP THEN "find" ELSE "phase3"]
  /\ UNCHANGED <<mainVars, mgrVars, timer, jtarget, flocal, readerVars, histVars>>

\* 973-977: find_atem has returned; False makes FallbackIP the address, an
\* exception ends the process.
MainAfterFind ==
  /\ pc[MainId] = "find_ret"
  /\ pc' = [pc EXCEPT ![MainId] =
              IF flocal[MainId].result = "raised" THEN "crashed" ELSE "phase3"]
  /\ ATEM_IP' = IF flocal[MainId].result = "False" THEN FallbackIP ELSE ATEM_IP
  /\ flocal' = [flocal EXCEPT ![MainId] = NoFind]
  /\ UNCHANGED <<mainVars, atem_status, atem_manager, config, scan_in_progress,
                 atem_reader_thread, atem_reader_stop_event, lock, atem_lock,
                 timer, jtarget, readerVars, histVars>>

\* 967-968, 979-991: with a saved address, or after the search, the reader
\* thread is started and the multicast socket opened; a socket that cannot
\* be opened ends the process.
MainStartup ==
  /\ \/ pc[MainId] = "startup" /\ ATEM_IP # None
     \/ pc[MainId] = "phase3"
  /\ StartReader(CHOOSE r \in Readers : \A q \in Readers : r <= q)
  /\ \E sock \in BOOLEAN :
       pc' = [pc EXCEPT ![MainId] = IF sock THEN "cycle" ELSE "crashed"]
  /\ UNCHANGED <<mainVars, atem_status, atem_manager, ATEM_IP, config,
                 scan_in_progress, atem_reader_stop_event, lock, atem_lock,
                 timer, jtarget, flocal, histVars>>

\* A send error that ends the loop.
SendErrorEnds == "crashed"

\* A cycle that leaves the array of the last cycle as it is.
ResetKeeps(tally) == tally

\* 1016-1018: every byte of the array is set to Clear.
ResetTally(tally) == [i \in DOMAIN tally |-> Clear]

\* 1020-1039 on the array as the reset left it: the bytes the render marks
\* are written, the others stay.
MarkTally(tally, active, data_age, live_val, preview_val, autolive_val) ==
  LET marks == RenderTally(active, data_age, live_val, preview_val, autolive_val)
  IN  [i \in DOMAIN tally |-> IF marks[i] # Clear THEN marks[i] ELSE tally[i]]

\* Where the except clause of 1061-1063 leaves the main thread: in its loop.
AfterSendError == "cycle"

\* One cycle of the broadcast loop (1000-1063): the data age, the render
\* (the shared state read under the lock), the send, the health check and
\* the sleep.  A send that raises skips the rest of the cycle and sleeps a
\* second (1061-1063).
BroadcastCycle ==
  /\ pc[MainId] = "cycle" /\ timer[MainId] = 0
  /\ (dict_state.isActive /\ Fresh(dataAge)) => ~lock
  /\ TallyState' = MarkTally(ResetTally(TallyState), dict_state.isActive,
                             dataAge, dict_state.Live, dict_state.Preview,
                             dict_state.Autolive)
  /\ \E sent \in BOOLEAN :
       /\ sendOK' = sent
       /\ IF ~sent
            THEN /\ timer' = [timer EXCEPT ![MainId] = 1]
                 /\ pc' = [pc EXCEPT ![MainId] = AfterSendError]
                 /\ UNCHANGED sinceCheck
            ELSE IF sinceCheck > HealthCheckInterval
              THEN /\ sinceCheck' = 0
                   /\ IF ~IsAlive(atem_reader_thread)
                        THEN /\ pc' = [pc EXCEPT ![MainId] = "restart"]
                             /\ UNCHANGED timer
                        ELSE /\ \E d \in ShortSleep :
                                  timer' = [timer EXCEPT ![MainId] = d]
                             /\ UNCHANGED pc
              ELSE /\ \E d \in ShortSleep : timer' = [timer EXCEPT ![MainId] = d]
                   /\ UNCHANGED <<pc, sinceCheck>>
  /\ UNCHANGED <<dict_state, dataAge, mgrVars, jtarget, flocal, readerVars, histVars>>

\* KeyboardInterrupt (1065-1066) reaches the main thread in its loop,
\* restart_atem_reader of the health check included.
MainPlaces == {"cycle", "restart", "restart_join", "restart_disc", "restart_start"}

Interrupt ==
  /\ pc[MainId] \in MainPlaces
  /\ pc' = [pc EXCEPT ![MainId] = "shutdown"]
  /\ timer' = [timer EXCEPT ![MainId] = 0]
  /\ jtarget' = [jtarget EXCEPT ![MainId] = None]
  /\ UNCHANGED <<mainVars, mgrVars, flocal, readerVars, histVars>>

\* 1072-1074: the stop event is set and the reader thread joined.
ShutdownBegin ==
  /\ pc[MainId] = "shutdown"
  /\ atem_reader_stop_event' = TRUE
  /\ IF atem_reader_thread # None
       THEN /\ jtarget' = [jtarget EXCEPT ![MainId] = atem_reader_thread]
            /\ timer' = [timer EXCEPT ![MainId] = JoinTimeout]
            /\ pc' = [pc EXCEPT ![MainId] = "shutdown_join"]
       ELSE /\ pc' = [pc EXCEPT ![MainId] = "shutdown_disc"]
            /\ UNCHANGED <<jtarget, timer>>
  /\ UNCHANGED <<mainVars, atem_status, atem_manager, ATEM_IP, config,
                 scan_in_progress, atem_reader_thread, lock, atem_lock,
                 flocal, readerVars, histVars>>

ShutdownJoin ==
  /\ pc[MainId] = "shutdown_join" /\ JoinReturns(MainId)
  /\ pc' = [pc EXCEPT ![MainId] = "shutdown_disc"]
  /\ timer' = [timer EXCEPT ![MainId] = 0]
  /\ jtarget' = [jtarget EXCEPT ![MainId] = None]
  /\ UNCHANGED <<mainVars, mgrVars, flocal, readerVars, histVars>>

\* 1077: atem_manager.disconnect().
ShutdownDisconnect ==
  /\ pc[MainId] = "shutdown_disc" /\ ~atem_lock
  /\ atem_manager' = Disconnected(atem_manager)
  /\ pc' = [pc EXCEPT ![MainId] = "shutdown_close"]
  /\ UNCHANGED <<mainVars, atem_status, ATEM_IP, config, scan_in_progress,
                 atem_reader_thread, atem_reader_stop_event, lock, atem_lock,
                 timer, jtarget, flocal, readerVars, histVars>>

\* 1080-1082: the socket is closed; the main thread ends and with it the
\* process.
ShutdownClose ==
  /\ pc[MainId] = "shutdown_close"
  /\ pc' = [pc EXCEPT ![MainId] = "done"]
  /\ UNCHANGED <<mainVars, mgrVars, timer, jtarget, flocal, readerVars, histVars>>

(***************************************************************************)
(* The dashboard, ConfigHandler (546-917), on the web server thread.       *)
(***************************************************************************)
\* POST /api/restart_reader (861-868).
WebRestart ==
  /\ Running
  /\ pc[WebId] = "idle"
  /\ pc' = [pc EXCEPT ![WebId] = "restart"]
  /\ UNCHANGED <<mainVars, mgrVars, timer, jtarget, flocal, readerVars, histVars>>

\* POST with action=scan (876-890): a run_scan thread is started, whatever
\* scan_in_progress says; the request returns at once.
WebScan ==
  /\ Running
  /\ pc[WebId] = "idle"
  /\ \E p \in Scans :
       /\ pc[p] = "idle"
       /\ \A q \in Scans : pc[q] = "idle" => p <= q
       /\ pc' = [pc EXCEPT ![p] = "find"]
  /\ UNCHANGED <<mainVars, mgrVars, timer, jtarget, flocal, readerVars, histVars>>

\* POST with atem_ip (894-896): new_ip is the address in the request, None
\* the empty field.  An address that is not empty and whose text differs
\* from the current one becomes ATEM_IP; any other request leaves
\* everything as it is.
WebSetIp ==
  /\ Running
  /\ pc[WebId] = "idle"
  /\ \E new_ip \in Hosts \cup {FallbackIP, None} :
       /\ new_ip # None /\ new_ip # ATEM_IP
       /\ ATEM_IP' = new_ip
       /\ flocal' = [flocal EXCEPT ![WebId].new_ip = new_ip]
  /\ pc' = [pc EXCEPT ![WebId] = "post_store"]
  /\ UNCHANGED <<mainVars, atem_status, atem_manager, config, scan_in_progress,
                 atem_reader_thread, atem_reader_stop_event, lock, atem_lock,
                 timer, jtarget, readerVars, histVars>>

\* 897-903: config['atem_ip'] takes the value the global ATEM_IP has now,
\* the configuration is saved and restart_atem_reader called.
WebStoreIp ==
  /\ Running
  /\ pc[WebId] = "post_store"
  /\ config' = [config EXCEPT !.atem_ip = ATEM_IP]
  /\ flocal' = [flocal EXCEPT ![WebId] = NoFind]
  /\ pc' = [pc EXCEPT ![WebId] = "restart"]
  /\ UNCHANGED <<mainVars, atem_status, atem_manager, ATEM_IP, scan_in_progress,
                 atem_reader_thread, atem_reader_stop_event, lock, atem_lock,
                 timer, jtarget, readerVars, histVars>>

\* The pair that an update under way is writing.
Pending ==
  {<<dict_state.Live, rlocal[r].preview>> : r \in {q \in Readers : rpc[q] = "updating"}}

\* GET (550-573, 818-819): dict_state is read without the lock, Live first.
WebGetLive ==
  /\ Running
  /\ pc[WebId] = "idle"
  /\ snap' = [Live |-> dict_state.Live, Preview |-> 0, step |-> 1,
              seen |-> {committed} \cup Pending]
  /\ pc' = [pc EXCEPT ![WebId] = "get"]
  /\ UNCHANGED <<mainVars, mgrVars, timer, jtarget, flocal, readerVars, sinceConnect,
                 lastRead, committed>>

WebGetPreview ==
  /\ Running
  /\ pc[WebId] = "get"
  /\ snap' = [snap EXCEPT !.Preview = dict_state.Preview, !.step = 2]
  /\ pc' = [pc EXCEPT ![WebId] = "idle"]
  /\ UNCHANGED <<mainVars, mgrVars, timer, jtarget, flocal, readerVars, sinceConnect,
                 lastRead, committed>>

(***************************************************************************)
(* Time.                                                                   *)
(***************************************************************************)
\* A reader that can take a step now.
ReaderRunnable(r) ==
  /\ IsAlive(r)
  /\ rtimer[r] = 0
  /\ rpc[r] \in {"connect", "read", "disconnect"} => ~atem_lock
  /\ rpc[r] = "update" => ~lock

\* A proc that can take a step now; a proc that is idle waits for a request.
\* loopRuns: the broadcast loop is part of the specification.
ProcRunnable(p, loopRuns) ==
  CASE pc[p] \in {"idle", "done", "crashed"} -> FALSE
    [] pc[p] = "cycle" ->
         /\ loopRuns
         /\ timer[p] = 0
         /\ (dict_state.isActive /\ Fresh(dataAge)) => ~lock
    [] pc[p] \in {"restart_join", "shutdown_join"} -> JoinReturns(p)
    [] pc[p] \in {"restart_disc", "shutdown_disc", "find_probe", "find_fast"} ->
         ~atem_lock
    [] pc[p] = "restart_start" -> FreeSlots # {}
    [] OTHER -> timer[p] = 0

Dec(n) == IF n > 0 THEN n - 1 ELSE 0

\* A clock that counts up to cap; None stays None.
Age(n, cap) == IF n = None THEN None ELSE Min(n + 1, cap)

\* A second passes: no thread is runnable, every wait gets a second shorter
\* and every clock a second older.  The two clocks that only the broadcast
\* loop reads (the data age, the time since the health check) are kept only
\* in the specifications the loop is part of.
Tick(loopRuns) ==
  /\ Running
  /\ \A r \in Readers : ~ReaderRunnable(r)
  /\ \A p \in Procs : ~ProcRunnable(p, loopRuns)
  /\ timer' = [p \in Procs |-> Dec(timer[p])]
  /\ rtimer' = [r \in Readers |-> Dec(rtimer[r])]
  /\ dataAge' = IF loopRuns THEN Age(dataAge, ATEM_DATA_STALE_TIMEOUT + 1) ELSE dataAge
  /\ sinceCheck' = IF loopRuns THEN Age(sinceCheck, HealthCheckInterval + 1) ELSE sinceCheck
  /\ sinceAttempt' = [r \in Readers |->
                        IF IsAlive(r) THEN Age(sinceAttempt[r], ATEM_RECONNECT_DELAY)
                        ELSE sinceAttempt[r]]
  /\ sinceConnect' = Age(sinceConnect, ATEM_RECONNECT_DELAY)
  /\ UNCHANGED <<dict_state, TallyState, sendOK, mgrVars, pc, jtarget, flocal, rpc,
                 consecutive_errors, rlocal, snap, lastRead, committed>>

RestartStep(callers) ==
  \E p \in callers :
    \/ RestartBegin(p)
    \/ RestartJoin(p)
    \/ RestartDisconnect(p)
    \/ RestartStart(p)

ShutdownStep ==
  \/ Interrupt
  \/ ShutdownBegin
  \/ ShutdownJoin
  \/ ShutdownDisconnect
  \/ ShutdownClose

WebGet ==
  \/ WebGetLive
  \/ WebGetPreview

(***************************************************************************)
(* Spec: the reader thread with its device, and the shutdown.              *)
(***************************************************************************)
Next ==
  \/ MainStartup
  \/ ReaderStep
  \/ ShutdownStep
  \/ Tick(FALSE)

Spec == Init /\ [][Next]_vars

(***************************************************************************)
(* SpecSupervise: the reader threads under restart_atem_reader called from *)
(* the dashboard, and the shutdown.  The device is healthy once connected: *)
(* it reports one source.                                                  *)
(***************************************************************************)
SteadyTokens == {Token("input", MaxInput)}

\* The device answers a connect late, or refuses it at once.
LateOrRefused ==
  {AnswerOk(ATEM_TIMEOUT + 1), Answer(FALSE, 0, NoToken, NoToken)}

ReaderSupervised ==
  \E r \in Readers :
    \/ ReaderLoop(r)
    \/ ReaderConnectBegin(r, LateOrRefused)
    \/ ReaderConnectEnd(r)
    \/ ReaderAfterConnect(r)
    \/ ReaderRead(r, SteadyTokens)
    \/ ReaderUpdateBegin(r)
    \/ ReaderUpdateEnd(r)

NextSupervise ==
  \/ MainStartup
  \/ ReaderSupervised
  \/ WebRestart
  \/ RestartStep({WebId})
  \/ ShutdownStep
  \/ Tick(FALSE)

SpecSupervise == Init /\ [][NextSupervise]_vars

\* A call of atem_manager.connect starts: reader r leaves the head of the
\* loop for the call.
ConnectCall(r) == rpc[r] = "loop" /\ rpc'[r] = "connect"

\* C6: calls of atem_manager.connect start no more often than once per
\* ATEM_RECONNECT_DELAY seconds, over the whole run, reader restarts included.
C6_ConnectCallsSpaced ==
  [][(\E r \in Readers : ConnectCall(r))
       => (sinceConnect = None \/ sinceConnect >= ATEM_RECONNECT_DELAY)]_vars

\* C10: once the shutdown sequence has completed, the manager is
\* disconnected, its handle cleared, and no reader thread is in a connect or
\* about to start one.
C10_ShutdownFinal ==
  pc[MainId] = "done"
    => /\ ~atem_manager.connected
       /\ atem_manager.atem = None
       /\ \A r \in Readers : rpc[r] \notin {"connect", "connecting"}

\* A read that fails: reader r leaves the read with nothing valid from the
\* device.
FailedRead(r) ==
  rpc[r] = "read" /\ rpc'[r] # "read" /\ lastRead'[r] = "failed"

\* The threshold disconnect: reader r leaves the disconnect of 304-310.
ForcedDisconnect(r) ==
  rpc[r] = "disconnect" /\ rpc'[r] # "disconnect"

\* C4: a failed or empty read never changes the Live, Preview and Autolive
\* of the shared state, nor the time of the last data: the step of the failed
\* read and the forced disconnect after it leave them as they are, and they
\* change only in the update that follows a valid read.
C4_FailedReadKeepsState ==
  [][/\ \A r \in Readers :
          (FailedRead(r) \/ ForcedDisconnect(r))
            => (dict_state' = dict_state /\ dataAge' = dataAge)
     /\ (dict_state' # dict_state \/ dataAge' # dataAge)
          => \E r \in Readers :
               rpc[r] \in {"update", "updating"} /\ lastRead[r] = "valid"]_vars

C4_Witness ==
  \E r \in Readers :
    /\ lastRead[r] = "failed" /\ consecutive_errors[r] > 0
    /\ dataAge = 0 /\ dict_state.Live = MaxInput

\* C5: the read that brings consecutive_errors to max_consecutive_errors
\* sends the reader to the forced disconnect, which clears the handle, sets
\* the manager and the status to not connected, resets the counter and puts
\* the reader back at the head of the loop, where a manager that is not
\* connected takes the reconnect branch.
C5_ForcedDisconnectAtThreshold ==
  [][\A r \in Readers :
       /\ (FailedRead(r) /\ consecutive_errors[r] + 1 >= max_consecutive_errors)
            => rpc'[r] = "disconnect"
       /\ (FailedRead(r) /\ consecutive_errors[r] + 1 < max_consecutive_errors)
            => (rpc'[r] = "loop" /\ atem_status' = atem_status)
       /\ ForcedDisconnect(r)
            => /\ atem_manager'.atem = None
               /\ ~atem_manager'.connected
               /\ ~atem_status'.connected
               /\ consecutive_errors'[r] = 0
               /\ rpc'[r] = "loop"
       /\ (rpc[r] = "loop" /\ rpc'[r] = "read") => atem_manager.connected]_vars

C5_Witness ==
  \E r \in Readers :
    /\ rpc[r] = "loop" /\ rtimer[r] >= ATEM_RECONNECT_DELAY
    /\ lastRead[r] = "failed" /\ consecutive_errors[r] = 0
    /\ atem_manager.atem = None /\ ~atem_manager.connected
    /\ ~atem_status.connected

(***************************************************************************)
(* SpecStatus: the reader thread and the dashboard's status requests.      *)
(***************************************************************************)
NextStatus ==
  \/ MainStartup
  \/ ReaderStep
  \/ WebGet
  \/ Tick(FALSE)

SpecStatus == Init /\ [][NextStatus]_vars

\* C9: Live, Preview and Autolive are written together under the lock and
\* read as one unit: the pair a completed status snapshot holds is a pair
\* that one update wrote, and that was in the shared state, or on its way
\* into it, while the snapshot was taken.
C9_SnapshotNotTorn ==
  snap.step = 2 => <<snap.Live, snap.Preview>> \in snap.seen

(***************************************************************************)
(* SpecScan: a start without a saved address, and the scans the dashboard  *)
(* asks for, with the reader threads they restart.                         *)
(***************************************************************************)
InitScan ==
  /\ InitCommon
  /\ ATEM_IP = None
  /\ config = [atem_ip |-> None, last_successful_ip |-> None]

FindStep ==
  \E p \in {MainId} \cup Scans :
    \/ FindBegin(p)
    \/ FindPing(p, BOOLEAN, HostLists)
    \/ FindProbe(p, AnyMixers)
    \/ FindStore(p)
    \/ FindFinally(p)

NextScan ==
  \/ MainDiscover
  \/ MainAfterFind
  \/ MainStartup
  \/ WebScan
  \/ FindStep
  \/ \E p \in Scans : RunScanEnd(p)
  \/ RestartStep(Scans)
  \/ ReaderSupervised
  \/ Tick(FALSE)

SpecScan == InitScan /\ [][NextScan]_vars

\* The threads that are in find_atem.
Scanning ==
  {p \in Procs :
     pc[p] \in {"find", "find_fast", "find_ping", "find_probe", "find_store",
              "find_finally"}}

\* C7: at most one find_atem is executing at any time; a scan request that
\* comes while a scan is in progress starts no second one.
C7_OneScanAtATime == Cardinality(Scanning) <= 1

\* C8: find_atem reports every failure as False and lets no exception reach
\* its caller, the end of the ping budget included: what a caller gets back
\* is True or False.
C8_FindNeverRaises ==
  \A p \in Procs :
    pc[p] \in {"find_ret", "scan_ret"} => flocal[p].result \in {"True", "False"}

(***************************************************************************)
(* SpecRender: the broadcast cycle on its inputs.  The shared state and    *)
(* the data age are drawn from the values a reader can have left there:    *)
(* every live value with the preview values at the ends of the range and   *)
(* next to it, and the other way round.                                    *)
(***************************************************************************)
RenderVals == (0 - MaxOver)..(TallyLen + MaxOver)

RenderEnds == {v \in RenderVals : v <= 2 \/ v >= TallyLen - 1}

RenderPairs ==
  {lp \in RenderVals \X RenderVals :
     lp[1] \in RenderEnds \/ lp[2] \in RenderEnds \/ lp[1] - lp[2] \in -1..1}

RenderAges == {None, 0, ATEM_DATA_STALE_TIMEOUT, ATEM_DATA_STALE_TIMEOUT + 1}

FirstReader == CHOOSE r \in Readers : \A q \in Readers : r <= q

\* The broadcast loop and a connected reader at the head of their loops,
\* with the shared state holding a pair of pairs, an Autolive value of
\* autolives and a data age of ages.
LoopInit(pairs, autolives, ages) ==
  /\ \E lp \in pairs, a \in autolives :
       dict_state = [Live |-> lp[1], Preview |-> lp[2], Autolive |-> a,
                     isActive |-> TRUE]
  /\ dataAge \in ages
  /\ TallyState = AllClear
  /\ sendOK = FALSE
  /\ sinceCheck = 0
  /\ atem_status = [connected |-> TRUE, reconnect_in_progress |-> FALSE]
  /\ ATEM_IP = CHOOSE ip \in Hosts : \A h \in Hosts : ip <= h
  /\ atem_manager = [atem |-> ATEM_IP, ip |-> ATEM_IP, connected |-> TRUE,
                     last_error |-> FALSE]
  /\ config = [atem_ip |-> ATEM_IP, last_successful_ip |-> None]
  /\ scan_in_progress = FALSE
  /\ atem_reader_thread = FirstReader
  /\ atem_reader_stop_event = FALSE
  /\ lock = FALSE
  /\ atem_lock = FALSE
  /\ pc = [p \in Procs |-> IF p = MainId THEN "cycle" ELSE "idle"]
  /\ timer = [p \in Procs |-> 0]
  /\ jtarget = [p \in Procs |-> None]
  /\ flocal = [p \in Procs |-> NoFind]
  /\ rpc = [r \in Readers |-> IF r = FirstReader THEN "loop" ELSE "idle"]
  /\ rtimer = [r \in Readers |-> 0]
  /\ consecutive_errors = [r \in Readers |-> 0]
  /\ sinceAttempt = [r \in Readers |-> 0]
  /\ rlocal = [r \in Readers |-> NoLocals]
  /\ snap = [Live |-> 0, Preview |-> 0, step |-> 0, seen |-> {}]
  /\ sinceConnect = None
  /\ lastRead = [r \in Readers |-> "none"]
  /\ committed = <<dict_state.Live, dict_state.Preview>>

\* The reader writes Autolive = 0 with every update and nothing else writes it.
InitRender == LoopInit(RenderPairs, {0}, RenderAges)

NextRender == BroadcastCycle

SpecRender == InitRender /\ [][NextRender]_vars

\* The array a cycle has to render for live and preview.
Expected(live, preview) ==
  [i \in Channels |-> IF i = live - 1 THEN Live
                      ELSE IF i = preview - 1 THEN Preview
                      ELSE Clear]

\* The datagram of the last cycle has left, with the array it rendered.
Transmitted == sendOK

\* C1: with the system active, the data fresh and autolive inactive, live = c
\* in 1..256 and preview = 0 render Live at index c - 1 and Clear at every
\* other index.
C1_LiveOnly ==
  (/\ Transmitted
   /\ dict_state.isActive /\ Fresh(dataAge) /\ dict_state.Autolive = 0
   /\ dict_state.Live \in 1..TallyLen /\ dict_state.Preview = 0)
  => \A i \in Channels :
       TallyState[i] = IF i = dict_state.Live - 1 THEN Live ELSE Clear

C1_Witness ==
  /\ Transmitted /\ Fresh(dataAge)
  /\ dict_state.Live = TallyLen /\ dict_state.Preview = 0
  /\ TallyState[TallyLen - 1] = Live

\* C2: with the system active, the data fresh and autolive inactive, live = c1
\* and preview = c2, different channels of 1..256, render Live at index
\* c1 - 1, Preview at index c2 - 1 and Clear elsewhere.
C2_LiveAndPreview ==
  (/\ Transmitted
   /\ dict_state.isActive /\ Fresh(dataAge) /\ dict_state.Autolive = 0
   /\ dict_state.Live \in 1..TallyLen /\ dict_state.Preview \in 1..TallyLen
   /\ dict_state.Live # dict_state.Preview)
  => TallyState = Expected(dict_state.Live, dict_state.Preview)

C2_Witness ==
  /\ Transmitted /\ Fresh(dataAge)
  /\ dict_state.Live = 1 /\ dict_state.Preview = TallyLen
  /\ TallyState[0] = Live /\ TallyState[TallyLen - 1] = Preview

\* C3: when the data age is above the staleness threshold, or no data was
\* ever received, the array rendered and transmitted is all Clear, whatever
\* live and preview are.
C3_StaleIsClear ==
  (Transmitted /\ (dataAge = None \/ dataAge > ATEM_DATA_STALE_TIMEOUT))
  => TallyState = AllClear

C3_Witness ==
  /\ Transmitted /\ dataAge = None
  /\ dict_state.Live = 1 /\ dict_state.Preview = 2
  /\ TallyState = AllClear

\* C12: every datagram transmitted is well formed: 256 bytes, each Clear,
\* Preview or Live, at most one Live byte and at most one Preview byte; a live
\* or preview value outside 1..256 marks no channel.
C12_WellFormed ==
  Transmitted =>
    /\ DOMAIN TallyState = Channels
    /\ Cardinality(Channels) = TallyLen
    /\ \A i \in Channels : TallyState[i] \in {Clear, Preview, Live}
    /\ Cardinality({i \in Channels : TallyState[i] = Live}) <= 1
    /\ Cardinality({i \in Channels : TallyState[i] = Preview}) <= 1
    /\ dict_state.Live \notin 1..TallyLen
         => \A i \in Channels : TallyState[i] # Live
    /\ dict_state.Preview \notin 1..TallyLen
         => \A i \in Channels : TallyState[i] # Preview

C12_Witness ==
  /\ Transmitted /\ Fresh(dataAge)
  /\ dict_state.Live = TallyLen + 1 /\ dict_state.Preview = 0 - 1
  /\ TallyState = AllClear

\* C16: with the system active, the data fresh and autolive inactive, live and
\* preview naming the same channel c of 1..256 render Live at index c - 1.
C16_LiveOverridesPreview ==
  (/\ Transmitted
   /\ dict_state.isActive /\ Fresh(dataAge) /\ dict_state.Autolive = 0
   /\ dict_state.Live \in 1..TallyLen /\ dict_state.Preview = dict_state.Live)
  => TallyState[dict_state.Live - 1] = Live

C16_Witness ==
  /\ Transmitted /\ Fresh(dataAge)
  /\ dict_state.Live = 2 /\ dict_state.Preview = 2
  /\ TallyState[1] = Live

\* The render as a function of its three inputs: Autolive is drawn as well,
\* although the reader only ever writes 0 to it.
AutoliveVals == {0, MaxAuto}

InitRenderAuto == LoopInit(RenderPairs, AutoliveVals, RenderAges)

SpecRenderAuto == InitRenderAuto /\ [][NextRender]_vars

\* C15: with autolive active (Autolive # 0) no byte is Preview, whatever the
\* preview value, and the live channel is rendered as with autolive inactive.
C15_AutoliveHidesPreview ==
  (Transmitted /\ dict_state.Autolive # 0)
  => /\ \A i \in Channels : TallyState[i] # Preview
     /\ \A i \in Channels :
          (TallyState[i] = Live) <=>
          (RenderTally(dict_state.isActive, dataAge, dict_state.Live,
                       dict_state.Preview, 0)[i] = Live)

C15_Witness ==
  /\ Transmitted /\ Fresh(dataAge) /\ dict_state.Autolive # 0
  /\ dict_state.Live = 1 /\ dict_state.Preview = 2
  /\ TallyState[0] = Live /\ TallyState[1] = Clear

\* connect(ip) returns to reader r in this step.
ConnectReturns(r) == rpc[r] = "connecting" /\ rpc'[r] = "connected_ret"

\* C13: connect(ip) returns True only if the handshake completed and the
\* validation read gave two sources; in every other outcome it returns False
\* and leaves the manager disconnected: connected False, the handle cleared
\* and last_error recorded.
C13_ConnectContract ==
  [][\A r \in Readers :
       ConnectReturns(r) =>
         LET a == rlocal[r].answer
         IN  /\ rlocal'[r].ok <=>
                  (a.handshake /\ a.live # NoToken /\ a.preview # NoToken)
             /\ rlocal'[r].ok => atem_manager'.connected
             /\ ~rlocal'[r].ok =>
                  /\ ~atem_manager'.connected
                  /\ atem_manager'.atem = None
                  /\ atem_manager'.last_error]_vars

\* The handshake completed, the validation read found a source missing, and
\* connect has returned False with the manager disconnected.
C13_Witness ==
  \E r \in Readers :
    /\ rpc[r] = "connected_ret"
    /\ rlocal[r].answer.handshake /\ rlocal[r].answer.preview = NoToken
    /\ ~rlocal[r].ok
    /\ ~atem_manager.connected /\ atem_manager.atem = None
    /\ atem_manager.last_error

(***************************************************************************)
(* The reader with a device that reports sources of every form             *)
(* _parse_input_value (204-217) tells apart: "input<n>" with n around both *)
(* ends of the channel range ("input-1" and "input257" are strings int()   *)
(* accepts), digit strings, other names and None.                          *)
(***************************************************************************)
ReadTokens ==
  {Token("input", n) : n \in RenderEnds}
    \cup {Token("digits", n) : n \in {v \in RenderEnds : v >= 0}}
    \cup {Token("badinput", 0), Token("other", 0), NoToken}

ReaderWide ==
  \E r \in Readers :
    \/ ReaderLoop(r)
    \/ ReaderConnectBegin(r, ConnectOutcomes)
    \/ ReaderConnectEnd(r)
    \/ ReaderAfterConnect(r)
    \/ ReaderRead(r, ReadTokens)
    \/ ReaderUpdateBegin(r)
    \/ ReaderUpdateEnd(r)
    \/ ReaderDisconnect(r)

NextRead == MainStartup \/ ReaderWide \/ Tick(FALSE)

SpecRead == Init /\ [][NextRead]_vars

\* C14: the live and preview numbers read_data returns are inside 0..256 for
\* every source the device reports.
C14_ReadClamped ==
  \A r \in Readers :
    rpc[r] = "update" =>
      rlocal[r].live \in 0..TallyLen /\ rlocal[r].preview \in 0..TallyLen

(***************************************************************************)
(* SpecDiscover: the search on a network where exactly one host, TheMixer, *)
(* answers the mixer probe, and it answers the ping as well; other hosts   *)
(* may answer the ping.                                                    *)
(***************************************************************************)
TheMixer == CHOOSE h \in Hosts : \A g \in Hosts : g <= h

WithMixer == {l \in HostLists : \E i \in DOMAIN l : l[i] = TheMixer}

FindOneMixer ==
  \E p \in {MainId} \cup Scans :
    \/ FindBegin(p)
    \/ FindPing(p, BOOLEAN, WithMixer)
    \/ FindProbe(p, {{TheMixer}})
    \/ FindStore(p)
    \/ FindFinally(p)

NextDiscover ==
  \/ MainDiscover
  \/ MainAfterFind
  \/ MainStartup
  \/ WebScan
  \/ FindOneMixer
  \/ \E p \in Scans : RunScanEnd(p)
  \/ RestartStep(Scans)
  \/ ReaderSupervised
  \/ Tick(FALSE)

SpecDiscover == InitScan /\ [][NextDiscover]_vars

\* find_atem of thread p gets its result in this step.
FindResult(p) == flocal[p].result = "none" /\ flocal'[p].result # "none"

\* C17: on a network where exactly one host answers the ping and the mixer
\* probe, find_atem returns True and ATEM_IP becomes that host's address.
C17_DiscoverySuccess ==
  [][\A p \in Procs :
       FindResult(p) => flocal'[p].result = "True" /\ ATEM_IP' = TheMixer]_vars

(***************************************************************************)
(* SpecSilent: the search on a network where no host answers the ping.     *)
(***************************************************************************)
FindSilent ==
  \E p \in {MainId} \cup Scans :
    \/ FindBegin(p)
    \/ FindPing(p, BOOLEAN, {<<>>})
    \/ FindFinally(p)

NextSilent ==
  \/ MainDiscover
  \/ MainAfterFind
  \/ MainStartup
  \/ WebScan
  \/ FindSilent
  \/ \E p \in Scans : RunScanEnd(p)
  \/ RestartStep(Scans)
  \/ ReaderSupervised
  \/ Tick(FALSE)

SpecSilent == InitScan /\ [][NextSilent]_vars

\* C18: on a network where no host answers the ping, find_atem returns False
\* and calls test_atem_connection for no host.
C18_NoProbeWithoutPing ==
  /\ \A p \in Procs : pc[p] # "find_probe"
  /\ \A p \in Procs :
       pc[p] \in {"find_ret", "scan_ret"} => flocal[p].result = "False"

(***************************************************************************)
(* SpecHealth: the broadcast loop with its health check (1051-1056) and a  *)
(* reader thread that can end without a restart being under way: an       *)
(* exception that leaves the handler of 315-317, or one that is not an     *)
(* Exception, ends the thread function.  The device refuses every connect. *)
(***************************************************************************)
Refused == {Answer(FALSE, 0, NoToken, NoToken)}

ReaderRefused ==
  \E r \in Readers :
    \/ ReaderLoop(r)
    \/ ReaderConnectBegin(r, Refused)
    \/ ReaderConnectEnd(r)
    \/ ReaderAfterConnect(r)

\* The thread function of reader r ends, at the loop boundary.
ReaderDies(r) ==
  /\ Running
  /\ rpc[r] = "loop"
  /\ rpc' = [rpc EXCEPT ![r] = "dead"]
  /\ rtimer' = [rtimer EXCEPT ![r] = 0]
  /\ sinceAttempt' = [sinceAttempt EXCEPT ![r] = 0]
  /\ consecutive_errors' = [consecutive_errors EXCEPT ![r] = 0]
  /\ UNCHANGED <<mainVars, mgrVars, procVars, rlocal, histVars>>

\* restart_atem_reader as the health check calls it: the thread is not
\* alive, so there is no join.
MainRestart ==
  \/ RestartBegin(MainId)
  \/ RestartDisconnect(MainId)
  \/ RestartStart(MainId)

NextHealth ==
  \/ MainStartup
  \/ BroadcastCycle
  \/ MainRestart
  \/ ReaderRefused
  \/ \E r \in Readers : ReaderDies(r)
  \/ Tick(TRUE)

\* Every thread that can run does run, and time passes; whether a send
\* succeeds is left to the network.
FairHealth ==
  /\ WF_vars(BroadcastCycle)
  /\ WF_vars(MainRestart)
  /\ WF_vars(ReaderRefused)
  /\ WF_vars(Tick(TRUE))

SpecHealth == Init /\ [][NextHealth]_vars /\ FairHealth

\* The broadcast loop is running and the reader thread of the global has
\* ended.
DeadReader ==
  /\ pc[MainId] \in MainPlaces
  /\ atem_reader_thread # None
  /\ ~IsAlive(atem_reader_thread)

\* C11: whenever the reader thread has died while the broadcast loop keeps
\* cycling, the loop restarts it, whether its sends succeed or fail.
C11_DeadReaderRestarted == DeadReader ~> ~DeadReader

(***************************************************************************)
(* SpecOutage: from the first state on the device fails every connect and  *)
(* every read.  The first state is any the loops can be in when that       *)
(* begins: the reader connected, data of any age (or none) in the shared   *)
(* state.                                                                  *)
(***************************************************************************)
OutagePairs == (0..MaxInput) \X (0..MaxInput)

OutageAges == {None, 0, ATEM_DATA_STALE_TIMEOUT}

FailedAnswers == {a \in ConnectOutcomes : ~connect_ok(a)}

ReaderOutage ==
  \E r \in Readers :
    \/ ReaderLoop(r)
    \/ ReaderConnectBegin(r, FailedAnswers)
    \/ ReaderConnectEnd(r)
    \/ ReaderAfterConnect(r)
    \/ ReaderRead(r, {NoToken})
    \/ ReaderDisconnect(r)

InitOutage == LoopInit(OutagePairs, {0}, OutageAges)

NextOutage == BroadcastCycle \/ ReaderOutage \/ Tick(TRUE)

\* Every thread that can run does run, and time passes.
FairOutage ==
  /\ WF_vars(BroadcastCycle)
  /\ WF_vars(ReaderOutage)
  /\ WF_vars(Tick(TRUE))

SpecOutage == InitOutage /\ [][NextOutage]_vars /\ FairOutage

\* C20: once every connect and every read fails, the data only gets older,
\* a payload transmitted when it is older than the staleness threshold is
\* all Clear, it is older than the threshold from some time on, and
\* atem_status['connected'] becomes False and stays False.
C20_OutageGoesClear ==
  /\ [][dataAge' # dataAge => (dataAge # None /\ dataAge' = dataAge + 1)]_vars
  /\ [][(BroadcastCycle /\ sendOK' /\ ~Fresh(dataAge))
         => TallyState' = AllClear]_vars
  /\ <>[](~Fresh(dataAge))
  /\ <>[](~atem_status.connected)

\* Live data has grown stale: the payload sent is all Clear and the status
\* shows the mixer disconnected.
C20_Witness ==
  /\ Transmitted
  /\ dataAge = ATEM_DATA_STALE_TIMEOUT + 1
  /\ dict_state.Live = MaxInput
  /\ TallyState = AllClear
  /\ ~atem_status.connected /\ ~atem_manager.connected

(***************************************************************************)
(* SpecLoops: the two loops side by side, with a device and a network that *)
(* fail in every way, and the shutdown.                                    *)
(***************************************************************************)
ReaderFaulty ==
  \E r \in Readers :
    \/ ReaderLoop(r)
    \/ ReaderConnectBegin(r, ConnectOutcomes)
    \/ ReaderConnectEnd(r)
    \/ ReaderAfterConnect(r)
    \/ ReaderRead(r, SteadyTokens \cup {NoToken})
    \/ ReaderUpdateBegin(r)
    \/ ReaderUpdateEnd(r)
    \/ ReaderDisconnect(r)

NextLoops ==
  \/ MainStartup
  \/ BroadcastCycle
  \/ ReaderFaulty
  \/ ShutdownStep
  \/ Tick(TRUE)

SpecLoops == Init /\ [][NextLoops]_vars

\* C19: no error of a cycle ends a loop: a reader thread ends only with the
\* stop event set, and the main thread leaves the broadcast loop only to
\* the shutdown that the interrupt starts.
C19_LoopsSurviveErrors ==
  [][/\ \A r \in Readers :
          (IsAlive(r) /\ rpc'[r] = "dead") => atem_reader_stop_event
     /\ (pc[MainId] \in MainPlaces /\ pc'[MainId] \notin MainPlaces)
          => pc'[MainId] = "shutdown"]_vars

\* A send has failed and a read has failed, and both loops go on.
C19_Witness ==
  /\ pc[MainId] = "cycle" /\ ~sendOK /\ timer[MainId] = 1
  /\ \E r \in Readers :
       /\ rpc[r] = "loop" /\ lastRead[r] = "failed"
       /\ consecutive_errors[r] > 0

\* atem_manager.disconnect() is called and returns in this step: by a
\* reader at the threshold, by restart_atem_reader, or by the shutdown.
DisconnectCall ==
  \/ \E r \in Readers : ForcedDisconnect(r)
  \/ \E p \in Procs : pc[p] = "restart_disc" /\ pc'[p] = "restart_start"
  \/ pc[MainId] = "shutdown_disc" /\ pc'[MainId] = "shutdown_close"

\* C21: after any disconnect() the handle is cleared and connected is False;
\* a call on a manager that is already disconnected returns as well and
\* leaves the manager as it is.
C21_DisconnectIdempotent ==
  [][DisconnectCall =>
       /\ atem_manager'.atem = None
       /\ ~atem_manager'.connected
       /\ (atem_manager.atem = None /\ ~atem_manager.connected)
            => atem_manager' = atem_manager]_vars

\* The shutdown has called disconnect() after the forced disconnect of a
\* reader that still sleeps: the second call has returned and the manager
\* is as the first one left it.
C21_Witness ==
  /\ pc[MainId] = "shutdown_close"
  /\ \E r \in Readers :
       /\ rpc[r] = "loop" /\ rtimer[r] > 0
       /\ lastRead[r] = "failed" /\ consecutive_errors[r] = 0
  /\ atem_manager.atem = None /\ ~atem_manager.connected
  /\ atem_manager.ip # None

\* The parsing rule: "input<N>" is N ("input0" is 0), a digit string is its
\* value, and every other token is 0.
ParseRule(t) ==
  CASE t.kind = "input" -> t.n
    [] t.kind = "digits" -> t.n
    [] OTHER -> 0

\* C22: _parse_input_value follows the parsing rule for every source that
\* read_data hands it, and gives 0 for None as well.
C22_ParsingRule ==
  /\ _parse_input_value(NoToken) = 0
  /\ \A r \in Readers :
       rpc[r] = "update" =>
         /\ rlocal[r].live = ParseRule(rlocal[r].tokens[1])
         /\ rlocal[r].preview = ParseRule(rlocal[r].tokens[2])

\* "inputX" has been parsed to 0 and the digit string "256" to 256.
C22_Witness ==
  \E r \in Readers :
    /\ rpc[r] = "update"
    /\ rlocal[r].tokens = <<Token("badinput", 0), Token("digits", TallyLen)>>
    /\ rlocal[r].live = 0 /\ rlocal[r].preview = TallyLen

\* test_atem_connection returns to find_atem of thread p in this step.
ProbeReturns(p) ==
  \/ pc[p] = "find_probe" /\ flocal'[p] # flocal[p]
  \/ pc[p] = "find_fast" /\ pc'[p] # "find_fast"

\* C23: when test_atem_connection returns, with True or with False, the
\* handle of its own manager is disconnected, and the long-lived manager and
\* the mixer state are as they were before the call.
C23_ProbeLeavesNoState ==
  [][\A p \in Procs :
       ProbeReturns(p) =>
         /\ flocal'[p].test_manager.atem = None
         /\ ~flocal'[p].test_manager.connected
         /\ atem_manager' = atem_manager
         /\ dict_state' = dict_state]_vars

\* A probe has answered True while the long-lived manager holds a
\* connection and the mixer state holds a live channel.
C23_Witness ==
  \E p \in Procs :
    /\ pc[p] = "find_finally" /\ flocal[p].result = "True"
    /\ flocal[p].test_manager.ip # None
    /\ atem_manager.connected /\ atem_manager.atem # None
    /\ dict_state.Live # 0

\* C24: the array a cycle renders is a function of the values that cycle
\* samples, so that the same sample gives the same bytes, and a byte that is
\* not Clear is one this cycle's sample marks: nothing of an earlier cycle
\* is left in it.
C24_RenderFromSampleOnly ==
  [][BroadcastCycle =>
       /\ TallyState' = RenderTally(dict_state.isActive, dataAge, dict_state.Live,
                                    dict_state.Preview, dict_state.Autolive)
       /\ \A i \in Channels :
            TallyState'[i] # Clear =>
              /\ dict_state.isActive /\ Fresh(dataAge)
              /\ i \in {dict_state.Live - 1, dict_state.Preview - 1}]_vars

\* The live channel, marked in the payloads sent while the data was fresh,
\* is Clear in the payload sent after the data has gone stale.
C24_Witness ==
  /\ Transmitted /\ pc[MainId] = "cycle"
  /\ dict_state.Live = MaxInput /\ dict_state.Preview = MaxInput
  /\ dataAge = ATEM_DATA_STALE_TIMEOUT + 1
  /\ TallyState[MaxInput - 1] = Clear
  /\ atem_manager.connected

\* The reader threads that are alive.
LiveReaders == {r \in Readers : IsAlive(r)}

\* C25: at every moment at most one reader thread is alive, however the
\* calls of restart_atem_reader interleave and whether or not the join
\* returns before its timeout.
C25_OneReaderThread == Cardinality(LiveReaders) <= 1

(***************************************************************************)
(* SpecWatch: the broadcast loop with its health check, and the dashboard  *)
(* asking for reader restarts, with a device that refuses every connect    *)
(* or lets it time out.                                                    *)
(***************************************************************************)
ReaderUnanswered ==
  \E r \in Readers :
    \/ ReaderLoop(r)
    \/ ReaderConnectBegin(r, FailedAnswers)
    \/ ReaderConnectEnd(r)
    \/ ReaderAfterConnect(r)

NextWatch ==
  \/ MainStartup
  \/ BroadcastCycle
  \/ WebRestart
  \/ RestartStep({MainId, WebId})
  \/ ReaderUnanswered
  \/ Tick(TRUE)

SpecWatch == Init /\ [][NextWatch]_vars

\* The main thread is in the broadcast loop and waits for a lock that a
\* thread holds across device I/O: the state lock of the render, or
\* atem_lock of the disconnect in restart_atem_reader.
LoopWaitsOnIO ==
  \/ /\ pc[MainId] = "restart_disc" /\ atem_lock
     /\ \E r \in Readers : rpc[r] = "connecting" /\ rtimer[r] > 0
  \/ /\ pc[MainId] = "cycle" /\ timer[MainId] = 0 /\ lock
     /\ \E r \in Readers : rpc[r] = "connecting" /\ rtimer[r] > 0

\* C26: the broadcast loop never waits for a lock that another thread holds
\* across a device connect, handshake wait or read, in its render or in its
\* health check and the restart it calls.
C26_LoopNeverWaitsOnIO == ~LoopWaitsOnIO

\* The ping sweep of find_atem in thread p ends in this step.
PingSweepEnds(p) == pc[p] = "find_ping" /\ pc'[p] # "find_ping"

\* C27: however the ping sweep ends, the end of its budget before every host
\* was tested included, find_atem goes on to the probes of the hosts that
\* answered, or returns False when none did.
C27_BudgetExpiryNotFatal ==
  [][\A p \in Procs :
       PingSweepEnds(p) =>
         \/ pc'[p] = "find_probe" /\ flocal'[p].alive_hosts # <<>>
         \/ pc'[p] = "find_finally" /\ flocal'[p].result = "False"]_vars

\* A step of a reader thread, and of no other thread.
ReaderThreadStep == rpc' # rpc /\ pc' = pc

\* The main thread, in its broadcast loop, returns from a call of
\* atem_manager.disconnect() in this step.
LoopCallsManager == pc[MainId] = "restart_disc" /\ pc'[MainId] = "restart_start"

\* C28: no step of a reader thread changes TallyState, and no step of the
\* broadcast loop, the health check included, calls a method of
\* atem_manager.
C28_LoopAndReaderApart ==
  [][/\ ReaderThreadStep => TallyState' = TallyState
     /\ ~LoopCallsManager]_vars

(***************************************************************************)
(* SpecReaddress: the dashboard changes the mixer address by hand, and the *)
(* reader threads its restart_atem_reader stops and starts.                *)
(***************************************************************************)
NextReaddress ==
  \/ MainStartup
  \/ WebSetIp
  \/ WebStoreIp
  \/ RestartStep({WebId})
  \/ ReaderSupervised
  \/ Tick(FALSE)

SpecReaddress == Init /\ [][NextReaddress]_vars

\* No address change is under way: the request thread has returned from
\* restart_atem_reader, and startup has started its reader thread.
ChangeCompleted == pc[WebId] = "idle" /\ pc[MainId] = "cycle"

\* C29: once an address change and the restart it triggers have completed,
\* a connected manager is connected to ATEM_IP.
C29_ConnectedToCurrentAddress ==
  (ChangeCompleted /\ atem_manager.connected) => atem_manager.ip = ATEM_IP

\* C30: only consecutive failures count.  The counter of a reader stays
\* within 0..max_consecutive_errors, the update after a valid read leaves
\* it at 0, and a reader goes to the forced disconnect only with
\* max_consecutive_errors invalid reads behind it and no valid read between
\* them.
C30_OnlyConsecutiveFailuresCount ==
  [][\A r \in Readers :
       /\ consecutive_errors'[r] \in 0..max_consecutive_errors
       /\ (rpc[r] = "updating" /\ rpc'[r] # "updating")
            => consecutive_errors'[r] = 0
       /\ (rpc[r] # "disconnect" /\ rpc'[r] = "disconnect")
            => rlocal'[r].failed_run >= max_consecutive_errors]_vars

\* A valid read has come after max_consecutive_errors - 1 invalid ones: the
\* manager is still connected and the counter is about to be reset.
C30_Witness ==
  \E r \in Readers :
    /\ rpc[r] = "update"
    /\ consecutive_errors[r] = max_consecutive_errors - 1
    /\ rlocal[r].failed_run = 0
    /\ atem_manager.connected /\ atem_manager.atem # None

(***************************************************************************)
(* SpecSteady: the two loops with a mixer that stays connected and whose   *)
(* program and preview never change: every read is valid and reports what  *)
(* is published already.                                                   *)
(***************************************************************************)
InitSteady ==
  LoopInit({<<MaxInput, MaxInput>>}, {0}, {0, ATEM_DATA_STALE_TIMEOUT})

ReaderSteady ==
  \E r \in Readers :
    \/ ReaderLoop(r)
    \/ ReaderRead(r, SteadyTokens)
    \/ ReaderUpdateBegin(r)
    \/ ReaderUpdateEnd(r)

NextSteady == BroadcastCycle \/ ReaderSteady \/ Tick(TRUE)

SpecSteady == InitSteady /\ [][NextSteady]_vars

\* C31: every valid read refreshes the data time, a read of values that are
\* published already included, so that with a connected manager and reads
\* that succeed no cycle of the broadcast loop finds the data stale.
C31_ValidReadsKeepDataFresh ==
  [][/\ \A r \in Readers : (rpc[r] = "updating" /\ rpc'[r] # "updating") => dataAge' = 0
     /\ BroadcastCycle => Fresh(dataAge)]_vars

\* More than HealthCheckInterval seconds of unchanged values: the data time
\* has just been refreshed and the live channel is in the payload.
C31_Witness ==
  /\ sinceCheck = HealthCheckInterval + 1
  /\ dataAge = 0
  /\ committed = <<MaxInput, MaxInput>>
  /\ Transmitted /\ TallyState[MaxInput - 1] = Live

(***************************************************************************)
(* SpecFast: a start without a saved address during which the dashboard    *)
(* sets one by hand, so that find_atem of __main__ finds ATEM_IP set, and  *)
(* the forced scans the dashboard asks for.  The device refuses the        *)
(* reader's connects.                                                      *)
(***************************************************************************)
FindWithFast ==
  \E p \in {MainId} \cup Scans :
    \/ FindBegin(p)
    \/ FindFast(p, AnyMixers)
    \/ FindPing(p, BOOLEAN, HostLists)
    \/ FindProbe(p, AnyMixers)
    \/ FindStore(p)
    \/ FindFinally(p)

NextFast ==
  \/ MainDiscover
  \/ MainAfterFind
  \/ MainStartup
  \/ WebSetIp
  \/ WebStoreIp
  \/ WebScan
  \/ FindWithFast
  \/ \E p \in Scans : RunScanEnd(p)
  \/ RestartStep(Scans \cup {WebId})
  \/ ReaderRefused
  \/ Tick(FALSE)

SpecFast == InitScan /\ [][NextFast]_vars

\* C32: find_atem called without force_scan while an address is known
\* tests that address first, and when it answers returns True at once, with
\* no ping sweep, no other probe and ATEM_IP as it was; a forced find_atem
\* never tests the known address first.
C32_FastPath ==
  [][/\ (pc[MainId] = "find" /\ pc'[MainId] # "find")
          => (pc'[MainId] = "find_fast") <=> (ATEM_IP # None)
     /\ \A p \in Scans : pc'[p] # "find_fast"
     /\ \A p \in Procs :
          (/\ pc[p] = "find_fast" /\ pc'[p] # "find_fast"
           /\ flocal'[p].test_manager.ip = flocal[p].known) =>
            /\ pc'[p] = "find_finally" /\ flocal'[p].result = "True"
            /\ flocal'[p].alive_hosts = <<>>
            /\ ATEM_IP' = ATEM_IP]_vars

\* find_atem of __main__ has ended with True on the known address.
C32_Witness ==
  /\ pc[MainId] = "find_finally" /\ flocal[MainId].result = "True"
  /\ flocal[MainId].known # None
  /\ flocal[MainId].test_manager.ip = flocal[MainId].known
  /\ flocal[MainId].alive_hosts = <<>>
  /\ ATEM_IP = flocal[MainId].known

(***************************************************************************)
(* SpecSweep: the search of __main__ on a network where up to two hosts    *)
(* answer the ping, the host at the fallback address among them.           *)
(***************************************************************************)
SweepLists ==
  HostLists \cup {<<FallbackIP>>}
            \cup {<<h, FallbackIP>> : h \in Hosts}
            \cup {<<FallbackIP, h>> : h \in Hosts}

NextSweep ==
  \/ MainDiscover
  \/ MainAfterFind
  \/ MainStartup
  \/ FindBegin(MainId)
  \/ FindPing(MainId, BOOLEAN, SweepLists)
  \/ FindProbe(MainId, AnyMixers)
  \/ FindStore(MainId)
  \/ FindFinally(MainId)
  \/ ReaderRefused
  \/ Tick(FALSE)

SpecSweep == InitScan /\ [][NextSweep]_vars

\* C33: the probe sweep tests the hosts that answered one after another, in
\* the order of the list and with the session of the test before closed,
\* and tests no host after a test has succeeded.
C33_SweepSequential ==
  [][\A p \in Procs :
       (pc[p] = "find_probe" /\ flocal'[p] # flocal[p]) =>
         /\ ~flocal[p].test_manager.connected
         /\ flocal[p].test_manager.atem = None
         /\ flocal'[p].test_manager.ip \in {None, Head(flocal[p].alive_hosts)}
         /\ IF flocal'[p].test_manager.ip # None
              THEN /\ pc'[p] = "find_store" /\ flocal'[p].result = "True"
                   /\ flocal'[p].alive_hosts = <<>>
              ELSE flocal'[p].alive_hosts = Tail(flocal[p].alive_hosts)]_vars

\* The first of two hosts has been tested and is no mixer: its session is
\* closed and the second host is next.
C33_Witness ==
  /\ pc[MainId] = "find_probe"
  /\ flocal[MainId].alive_hosts = <<FallbackIP>>
  /\ flocal[MainId].test_manager.last_error
  /\ flocal[MainId].test_manager.atem = None

\* C34: scan_in_progress is True exactly while a find_atem is executing: set
\* on entry, cleared on every way out, and not cleared while another
\* find_atem is still running.
C34_FlagTracksScans ==
  scan_in_progress
    <=> \E p \in Procs :
          pc[p] \in {"find_fast", "find_ping", "find_probe", "find_store",
                     "find_finally"}

\* C35: config['last_successful_ip'] is only ever set to an address for
\* which test_atem_connection has returned True, however find_atem
\* interleaves with an address set by hand.
C35_LastSuccessfulWasTested ==
  [][config'.last_successful_ip # config.last_successful_ip =>
       \E p \in Procs :
         /\ pc[p] \in {"find_fast", "find_store"} /\ pc'[p] = "find_finally"
         /\ flocal'[p].result = "True"
         /\ flocal'[p].test_manager.ip # None
         /\ config'.last_successful_ip = flocal'[p].test_manager.ip]_vars

\* C36: whenever atem_status['connected'] is True and no reader thread is
\* inside a connect or a disconnect step, atem_manager.connected is True,
\* also after restart_atem_reader has disconnected the manager.
C36_StatusMatchesManager ==
  (/\ atem_status.connected
   /\ \A r \in Readers : rpc[r] \notin {"connect", "connecting", "connected_ret",
                                        "disconnect"})
    => atem_manager.connected

\* C37: after a forced scan asked for on the dashboard, run_scan goes on to
\* restart_atem_reader only if that scan found a mixer; a scan that found
\* none leaves the reader thread and its connection alone.
C37_RestartOnlyWhenFound ==
  [][\A p \in Scans :
       (pc[p] = "scan_ret" /\ pc'[p] = "restart")
         => flocal[p].result = "True"]_vars

\* C38: when startup starts the reader thread an address is set: the saved
\* one, else the one found, else FallbackIP; and taking FallbackIP writes
\* nothing to the configuration.
C38_AddressAlwaysSet ==
  [][/\ (pc[MainId] \in {"startup", "phase3"} /\ pc'[MainId] = "cycle")
          => ATEM_IP' # None
     /\ (pc[MainId] = "find_ret" /\ pc'[MainId] = "phase3"
           /\ flocal[MainId].result = "False")
          => (ATEM_IP' = FallbackIP /\ config' = config)]_vars

\* C39: when a probe sweep has succeeded, ATEM_IP, config['atem_ip'] and
\* config['last_successful_ip'] are the host found; when an address set by
\* hand is taken over it is not empty and not the current one, ATEM_IP and
\* config['atem_ip'] are that address and restart_atem_reader is called; a
\* request with the current address changes nothing.
C39_AddressWrittenBack ==
  [][/\ \A p \in Procs :
          (pc[p] = "find_store" /\ pc'[p] # "find_store") =>
            /\ ATEM_IP' = flocal[p].test_manager.ip
            /\ config' = [atem_ip |-> flocal[p].test_manager.ip,
                          last_successful_ip |-> flocal[p].test_manager.ip]
     /\ (pc[WebId] = "idle" /\ pc'[WebId] = "post_store") =>
          /\ flocal'[WebId].new_ip \notin {None, ATEM_IP}
          /\ ATEM_IP' = flocal'[WebId].new_ip
     /\ (pc[WebId] = "post_store" /\ pc'[WebId] # "post_store") =>
          /\ ATEM_IP' = flocal[WebId].new_ip
          /\ config' = [config EXCEPT !.atem_ip = flocal[WebId].new_ip]
          /\ pc'[WebId] = "restart"]_vars

(***************************************************************************)
(* SpecSingle: atem.py, the version with one loop.  Its main loop (822-917)*)
(* calls getAtemData (314-428) itself, counts the calls that fail, renders *)
(* and sends.  consecutive_errors is a local of that loop: the model keeps *)
(* it in the slot of FirstReader.  An iteration that finds scan_in_progress*)
(* set sleeps and changes nothing.                                         *)
(***************************************************************************)
\* atem.py 815, and the limit in the render gate of atem.py 888.
SingleMaxErrors == 10

SingleRenderLimit == 5

\* What a call of getAtemData gets from the device: nothing it can use, or
\* a live and a preview source.
SingleOutcomes ==
  {[ok |-> FALSE, live |-> 0, preview |-> 0]}
    \cup {[ok |-> TRUE, live |-> l, preview |-> v] :
             l \in 0..(MaxInput + 1), v \in 0..(MaxInput + 1)}

\* atem.py 845-846, 849-851, 858: the counter after the call.
SingleErrors(errors, atem_success) == IF atem_success THEN 0 ELSE errors + 1

\* atem.py 865-885: at SingleMaxErrors the recovery runs and resets the
\* counter.
SingleRecovers(errors, atem_success) ==
  SingleErrors(errors, atem_success) >= SingleMaxErrors

\* atem.py 883-901: the array is cleared and, with the system active and
\* the call a success or fewer than SingleRenderLimit errors counted, marked
\* from the shared state.
SingleRender(active, atem_success, errors, live_val, preview_val, autolive_val) ==
  IF active /\ (atem_success \/ errors < SingleRenderLimit)
    THEN RenderTally(TRUE, 0, live_val, preview_val, autolive_val)
    ELSE AllClear

\* One iteration of the main loop of atem.py (822-917) with no scan under
\* way.  old: the last success is more than a minute ago; localIP: the
\* machine has an address, so that the recovery starts find_atem on a
\* thread of its own, which sets scan_in_progress (247).  getAtemData
\* (314-428): a call that succeeds writes the shared state and the status;
\* one that fails writes the status and drops the connection.
SingleLoopCycle(outcomes) ==
  /\ pc[MainId] = "cycle" /\ ~scan_in_progress
  /\ \E o \in outcomes, old \in BOOLEAN, localIP \in BOOLEAN, sent \in BOOLEAN :
       LET atem_success == ATEM_IP # None /\ o.ok
           errors == consecutive_errors[FirstReader]
           left == IF SingleRecovers(errors, atem_success)
                     THEN 0 ELSE SingleErrors(errors, atem_success)
           state == IF ATEM_IP # None /\ o.ok
                      THEN [dict_state EXCEPT !.Live = o.live,
                                              !.Preview = o.preview,
                                              !.Autolive = 0]
                      ELSE dict_state
       IN  /\ dict_state' = state
           /\ atem_status' = IF ATEM_IP # None
                               THEN [atem_status EXCEPT !.connected = o.ok]
                               ELSE atem_status
           /\ atem_manager' =
                IF ATEM_IP = None THEN atem_manager
                ELSE IF o.ok
                  THEN [atem_manager EXCEPT !.atem = ATEM_IP, !.ip = ATEM_IP,
                                            !.connected = TRUE]
                  ELSE Disconnected(atem_manager)
           /\ consecutive_errors' =
                [consecutive_errors EXCEPT ![FirstReader] = left]
           /\ scan_in_progress' =
                (SingleRecovers(errors, atem_success) /\ old /\ localIP)
           /\ TallyState' = SingleRender(state.isActive, atem_success, left,
                                         state.Live, state.Preview,
                                         state.Autolive)
           /\ sendOK' = sent
  /\ UNCHANGED <<dataAge, sinceCheck, ATEM_IP, config, atem_reader_thread,
                 atem_reader_stop_event, lock, atem_lock, procVars, rpc,
                 rtimer, sinceAttempt, rlocal, histVars>>

\* atem.py 311-312: the search the recovery started ends.
SingleScanEnds ==
  /\ pc[MainId] = "cycle" /\ scan_in_progress
  /\ scan_in_progress' = FALSE
  /\ UNCHANGED <<mainVars, atem_status, atem_manager, ATEM_IP, config,
                 atem_reader_thread, atem_reader_stop_event, lock, atem_lock,
                 procVars, readerVars, histVars>>

\* The main loop of atem.py is about to start (811-819): an address is
\* set, nothing has been read.
InitSingle ==
  /\ dict_state = [Live |-> 0, Preview |-> 0, Autolive |-> 0, isActive |-> TRUE]
  /\ dataAge = None
  /\ TallyState = AllClear
  /\ sendOK = FALSE
  /\ sinceCheck = 0
  /\ atem_status = [connected |-> FALSE, reconnect_in_progress |-> FALSE]
  /\ ATEM_IP = CHOOSE ip \in Hosts : \A h \in Hosts : ip <= h
  /\ atem_manager = NewManager
  /\ config = [atem_ip |-> ATEM_IP, last_successful_ip |-> None]
  /\ scan_in_progress = FALSE
  /\ atem_reader_thread = None
  /\ atem_reader_stop_event = FALSE
  /\ lock = FALSE
  /\ atem_lock = FALSE
  /\ pc = [p \in Procs |-> IF p = MainId THEN "cycle" ELSE "idle"]
  /\ timer = [p \in Procs |-> 0]
  /\ jtarget = [p \in Procs |-> None]
  /\ flocal = [p \in Procs |-> NoFind]
  /\ rpc = [r \in Readers |-> "idle"]
  /\ rtimer = [r \in Readers |-> 0]
  /\ consecutive_errors = [r \in Readers |-> 0]
  /\ sinceAttempt = [r \in Readers |-> 0]
  /\ rlocal = [r \in Readers |-> NoLocals]
  /\ snap = [Live |-> 0, Preview |-> 0, step |-> 0, seen |-> {}]
  /\ sinceConnect = None
  /\ lastRead = [r \in Readers |-> "none"]
  /\ committed = <<dict_state.Live, dict_state.Preview>>

NextSingle == SingleLoopCycle(SingleOutcomes) \/ SingleScanEnds

\* The loop is a while True, and a search ends: its pings and its tests
\* have timeouts.
SpecSingle ==
  /\ InitSingle /\ [][NextSingle]_vars
  /\ WF_vars(SingleLoopCycle(SingleOutcomes))
  /\ WF_vars(SingleScanEnds)

\* C40: in the single loop of atem.py, if from some point on every call of
\* getAtemData fails, then from some point on every payload transmitted is
\* all Clear: what was live or preview before the outage is not sent again.
C40_OutageStaysClear ==
  (<>[](~atem_status.connected))
    => <>[](Transmitted => TallyState = AllClear)

====
